---- MODULE Spec2Model ----
(***************************************************************************)
(* Session / token state machine of auth-components: the login and the     *)
(* callback route loaders, the session cookie store, the refresh           *)
(* coordinator and the loader facade, with one user agent (cookie jar),    *)
(* a wall clock and an authorization server that answers                   *)
(* nondeterministically.                                                   *)
(*                                                                         *)
(* One handler invocation is one step: Date.now() has one value during a   *)
(* request, the clock advances between requests.                           *)
(*                                                                         *)
(* Time is counted in seconds.  Every duration of the source is a whole    *)
(* number of seconds (expires_in and the cookie ages in s; REFRESH_WINDOW, *)
(* oneYear and the products with 1000 in ms), and 365 days in ms does not  *)
(* fit the 32-bit integers of the model checker.  So t here is 1000 * t ms *)
(* in the source, and the conversions "* 1000" of the source leave a       *)
(* number of seconds as it is.                                             *)
(***************************************************************************)
EXTENDS Integers, Sequences, FiniteSets, TLC

(***************************************************************************)
(* Bounds of the model.                                                    *)
(***************************************************************************)
StartTime == 1000000000
MaxAdvances == 1
MaxLogins == 1
MaxRequests == 2
MaxStates == 2

(***************************************************************************)
(* Program constants (COOKIE_CONFIG), in seconds.                          *)
(***************************************************************************)
SESSION_MAX_AGE == 24 * 60 * 60
REFRESH_WINDOW == 5 * 60
AUTH_STATE_MAX_AGE == 60 * 60

(***************************************************************************)
(* JavaScript values.  String fields hold strings, Undefined marks a       *)
(* missing one; numeric fields hold integers (seconds), and three markers  *)
(* below every time and every difference of times stand for NaN, null and  *)
(* undefined.                                                              *)
(***************************************************************************)
Undefined == "<undefined>"
NoParam == "<null>"
NaN == 0 - 2000000001
JNull == 0 - 2000000002
UndefinedNum == 0 - 2000000003

Null == [null |-> TRUE]
NoHeader == [noheader |-> TRUE]
Absent == [absent |-> TRUE]
EmptyValue == [empty |-> TRUE]
NoCookie == [nocookie |-> TRUE]

Falsy(s) == s \in {Undefined, NoParam, ""}
IsNumber(n) == n \notin {JNull, UndefinedNum}
IsString(s) == s # Undefined

\* n * 1000 in JavaScript, seconds to ms: undefined * 1000 is NaN, null * 1000 is 0
TimesThousand(n) == IF n \in {NaN, UndefinedNum} THEN NaN ELSE IF n = JNull THEN 0 ELSE n
Plus(a, b) == IF a = NaN \/ b = NaN THEN NaN ELSE a + b
Minus(a, b) == IF a = NaN \/ b = NaN THEN NaN ELSE a - b
\* comparisons with NaN are false
Gt(a, b) == a # NaN /\ b # NaN /\ a > b
Le(a, b) == a # NaN /\ b # NaN /\ a <= b

Throw(msg) == [threw |-> msg]
Threw(x) == "threw" \in DOMAIN x


(***************************************************************************)
(* State.                                                                  *)
(*   now       Date.now(), in seconds                                      *)
(*   advances  number of clock advances so far                             *)
(*   env       the environment (import.meta.env / process.env)             *)
(*   jar       the user agent's cookies: __session and __auth_state        *)
(*   uuids     number of crypto.randomUUID() values drawn so far           *)
(*   resp      the last request and the response to it                     *)
(*   probe     the last direct call of a session function and its result   *)
(*   loggedOut TRUE from a refresh call that failed until the next         *)
(*             callback that creates a session                             *)
(*   flight    the loader requests sent one by one, each with the cookies  *)
(*             it was sent with, its phase and, once handled, its response *)
(*   authServer  the authorization server: its refresh-token policy, the   *)
(*             refresh tokens it revoked, the numbers of token responses   *)
(*             and of code exchanges it made                               *)
(***************************************************************************)
VARIABLES now, advances, env, jar, uuids, resp, probe, loggedOut, flight, authServer

vars == <<now, advances, env, jar, uuids, resp, probe, loggedOut, flight, authServer>>

(***************************************************************************)
(* Cookie primitives of the framework (createCookie), as used by           *)
(* sessionCookie and stateCookie.  The wire value of a cookie is the       *)
(* encoded JSON text with the signature of the secret that signed it.      *)
(***************************************************************************)
JStr(s) == [str |-> s]
EmptyString == JStr("")
EmptyObject == [emptyobject |-> TRUE]
GarbageText == [garbage |-> TRUE]
Unsigned == "<unsigned>"

\* property access on a decoded object: a missing property is undefined
Field(o, k) ==
  IF k \in DOMAIN o THEN o[k]
  ELSE IF k = "expiresAt" THEN UndefinedNum ELSE Undefined

\* JSON.stringify: undefined properties are dropped, NaN becomes null
JsonStringify(v) ==
  IF "str" \in DOMAIN v THEN v
  ELSE LET keys == {k \in DOMAIN v :
                      IF k = "expiresAt" THEN v[k] # UndefinedNum ELSE v[k] # Undefined}
       IN  [k \in keys |-> IF k = "expiresAt" /\ v[k] = NaN THEN JNull ELSE v[k]]

\* decodeData: JSON.parse of the decoded text; text that does not decode gives {}
decodeData(text) == IF text = GarbageText THEN EmptyObject ELSE text

\* cookie.serialize(value, {maxAge}): "" is written as the empty value
serializeCookie(name, secret, value, maxAge) ==
  [name |-> name,
   value |-> IF value = EmptyString THEN EmptyValue
             ELSE [sig |-> secret, body |-> JsonStringify(value)],
   maxAge |-> maxAge]

\* cookie.parse(cookieHeader): null when absent or when no secret verifies
parseCookie(secret, wire) ==
  IF wire = Absent THEN Null
  ELSE IF wire = EmptyValue THEN EmptyString
  ELSE IF secret # Unsigned /\ wire.sig # secret THEN Null
  ELSE decodeData(wire.body)

\* the clock steps put a session of 300 s at its expiry, at the Max-Age of its
\* cookie, at the cookie ceiling past its expiry and one second beyond it; a
\* session of 3600 s is outside the refresh window at first and expired after
\* the longer steps
ClockSteps ==
  {REFRESH_WINDOW, SESSION_MAX_AGE, SESSION_MAX_AGE + 300, SESSION_MAX_AGE + 301}

(***************************************************************************)
(* Token texts: what createMockJwt of utils/dev-auth.ts encodes.           *)
(***************************************************************************)
\* JSON.stringify of a token header or payload as text, and its base64 encoding
JsonText(object) ==
  IF "enc" \in DOMAIN object
  THEN "{alg:" \o object.alg \o ",enc:" \o object.enc \o "}"
  ELSE IF "alg" \in DOMAIN object
  THEN "{alg:" \o object.alg \o ",typ:" \o object.typ \o "}"
  ELSE "{sub:" \o object.sub \o ",name:" \o object.name
       \o ",nickname:" \o object.nickname \o ",picture:" \o object.picture
       \o ",email:" \o object.email
       \o ",email_verified:" \o (IF object.email_verified THEN "true" ELSE "false")
       \o ",iat:" \o ToString(object.iat) \o ",exp:" \o ToString(object.exp) \o "}"
btoa(text) == "b64(" \o text \o ")"

MockJwtHeader == [alg |-> "none", typ |-> "JWT"]

\* the payload of the mock token made at time t
MockJwtPayload(t) ==
  [sub |-> "dev|123456789", name |-> "Dev User", nickname |-> "devuser",
   picture |-> "data:image/svg+xml,...", email |-> "dev@example.com",
   email_verified |-> TRUE, iat |-> t, exp |-> t + 365 * 24 * 60 * 60]

(***************************************************************************)
(* The token utilities.  A token is the text of its segments joined by     *)
(* dots.  A segment decodes when it is the base64 text of a known text;    *)
(* the JSON objects known are token headers (plain and with the enc        *)
(* marker) and the payloads of the mock tokens and of a user's id token    *)
(* made at the times the clock can show.  The base64url form of a segment  *)
(* stands for an encoding that holds "-" or "_" where base64 has "+", "/". *)
(***************************************************************************)
RECURSIVE TimesAfter(_)
TimesAfter(n) ==
  IF n = 0 THEN {StartTime}
  ELSE TimesAfter(n - 1) \cup {t + d : t \in TimesAfter(n - 1), d \in ClockSteps}

IdTokenHeader == [alg |-> "RS256", typ |-> "JWT"]
EncryptedHeader == [alg |-> "dir", enc |-> "A256GCM"]
IdTokenPayload == [MockJwtPayload(StartTime) EXCEPT !.sub = "auth0|42", !.name = "Ada"]

\* the payload of an id token that expired an hour before the start
ExpiredPayload ==
  [IdTokenPayload EXCEPT !.iat = StartTime - 7200, !.exp = StartTime - 3600]

JsonObjects ==
  {MockJwtHeader, IdTokenHeader, EncryptedHeader, IdTokenPayload, ExpiredPayload}
  \cup {MockJwtPayload(t) : t \in TimesAfter(MaxAdvances)}

\* texts that have a base64 encoding in the tokens considered
Texts == {JsonText(object) : object \in JsonObjects} \cup {"not json"}

btoaUrl(text) == "b64url(" \o text \o ")"

\* base64Url.replace(/-/g, '+').replace(/_/g, '/')
FromBase64Url(segment) ==
  IF \E text \in Texts : segment = btoaUrl(text)
  THEN btoa(CHOOSE text \in Texts : segment = btoaUrl(text))
  ELSE segment

\* atob(segment): the empty string decodes to the empty string
atob(segment) ==
  IF segment = "" THEN [text |-> ""]
  ELSE IF \E text \in Texts : segment = btoa(text)
  THEN [text |-> CHOOSE text \in Texts : segment = btoa(text)]
  ELSE Throw("InvalidCharacterError")

\* JSON.parse(text)
JsonParse(text) ==
  IF \E object \in JsonObjects : JsonText(object) = text
  THEN CHOOSE object \in JsonObjects : JsonText(object) = text
  ELSE Throw("SyntaxError")

\* JSON.parse(atob(segment)), with what either of them throws
ParseBase64Json(segment) ==
  LET decoded == atob(segment)
  IN  IF Threw(decoded) THEN decoded ELSE JsonParse(decoded.text)

RECURSIVE JoinSegments(_)
JoinSegments(parts) ==
  IF Len(parts) = 1 THEN parts[1]
  ELSE parts[1] \o "." \o JoinSegments(Tail(parts))

\* the segments of the tokens considered that hold a dot
TokenSegments ==
  LET h == btoa(JsonText(IdTokenHeader))
      p == btoa(JsonText(IdTokenPayload))
      e == btoa(JsonText(EncryptedHeader))
      m == btoa(JsonText(MockJwtHeader))
  IN  {<<h, "">>, <<h, p>>, <<h, p, "sig">>,
       <<h, btoa(JsonText(ExpiredPayload)), "sig">>,
       <<h, "!!!", "sig">>, <<h, btoa("not json"), "sig">>,
       <<"!!!", p, "sig">>, <<e, p, "sig">>,
       <<e, "key", "iv", "ciphertext", "tag">>,
       <<h, btoaUrl(JsonText(IdTokenPayload)), "sig">>,
       <<btoaUrl(JsonText(IdTokenHeader)), p, "sig">>}
      \cup {<<m, btoa(JsonText(MockJwtPayload(t))), "mock-signature">> :
              t \in TimesAfter(MaxAdvances)}

\* token.split('.')
SplitToken(token) ==
  IF \E parts \in TokenSegments : JoinSegments(parts) = token
  THEN CHOOSE parts \in TokenSegments : JoinSegments(parts) = token
  ELSE <<token>>

\* parts[i] of an array: undefined past its end
Part(parts, i) == IF i <= Len(parts) THEN parts[i] ELSE Undefined

\* an entry of the console: the level, the message and the values logged with it
LogEntry(level, message, values) ==
  [level |-> level, message |-> message, values |-> values]

\* what a call of a token function returns and what it writes to the console
Ran(result, log) == [result |-> result, log |-> log]

\* variant: the header is not looked at for the enc marker
parseJwtCallIgnoresEnc(token) ==
  LET parts == SplitToken(token)
      header == ParseBase64Json(Part(parts, 1))
      base64Url == Part(parts, 2)
      payload == ParseBase64Json(FromBase64Url(base64Url))
  IN  IF Threw(header)
      THEN Ran(Null, <<LogEntry("error", "Error parsing JWT:", <<header.threw>>)>>)
      ELSE IF Falsy(base64Url)
      THEN Ran(Null, <<LogEntry("log", "Invalid token format - no second part:",
                                <<token>>)>>)
      ELSE IF Threw(payload)
      THEN Ran(Null, <<LogEntry("error", "Error parsing JWT:", <<payload.threw>>)>>)
      ELSE Ran(payload, <<>>)

\* parseJwt with its console output
parseJwtCall(token) ==
  LET parts == SplitToken(token)
      header == ParseBase64Json(Part(parts, 1))
      base64Url == Part(parts, 2)
      payload == ParseBase64Json(FromBase64Url(base64Url))
  IN  IF Threw(header)
      THEN Ran(Null, <<LogEntry("error", "Error parsing JWT:", <<header.threw>>)>>)
      ELSE IF ~Falsy(Field(header, "enc"))
      THEN Ran(Null, <<LogEntry("log", "Token is encrypted, cannot parse directly",
                                <<>>)>>)
      ELSE IF Falsy(base64Url)
      THEN Ran(Null, <<LogEntry("log", "Invalid token format - no second part:",
                                <<token>>)>>)
      ELSE IF Threw(payload)
      THEN Ran(Null, <<LogEntry("error", "Error parsing JWT:", <<payload.threw>>)>>)
      ELSE Ran(payload, <<>>)

parseJwt(token) == parseJwtCall(token).result

\* getUserFromJwt with its console output
getUserFromJwtCall(token) ==
  LET base64Url == Part(SplitToken(token), 2)
      payload == ParseBase64Json(FromBase64Url(base64Url))
  IN  IF Falsy(base64Url)
      THEN Ran(Null, <<LogEntry("error", "Invalid JWT format - no payload section",
                                <<>>)>>)
      ELSE IF Threw(payload)
      THEN Ran(Null, <<LogEntry("error", "Error decoding JWT:", <<payload.threw>>)>>)
      ELSE Ran(payload, <<>>)

getUserFromJwt(token) == getUserFromJwtCall(token).result

\* needsRefresh(token) of the token utilities: by the exp claim of the token
needsRefresh(token) ==
  LET payload == parseJwt(token)
  IN  IF payload = Null THEN FALSE
      ELSE IF "exp" \notin DOMAIN payload \/ payload.exp = 0 THEN FALSE
      ELSE now + REFRESH_WINDOW >= payload.exp

(***************************************************************************)
(* utils/session.ts                                                        *)
(***************************************************************************)
SESSION_SECRET ==
  IF Falsy(env.SESSION_SECRET) THEN "default-secret-key-for-dev" ELSE env.SESSION_SECRET

SessionData(at, it, rt, ea) ==
  [accessToken |-> at, idToken |-> it, refreshToken |-> rt, expiresAt |-> ea]

\* variant: the previous refresh token wins over the one of the response
createSessionDataPrefersDefault(tokens, refreshTokenDefault) ==
  LET expiresAt == Plus(now, TimesThousand(tokens.expires_in))
      refreshToken == IF Falsy(refreshTokenDefault) THEN tokens.refresh_token
                      ELSE refreshTokenDefault
  IN  IF Falsy(refreshToken) THEN Throw("No refresh token available")
      ELSE SessionData(tokens.access_token, tokens.id_token, refreshToken, expiresAt)

\* variant: no check that a refresh token is available
createSessionDataUnchecked(tokens, refreshTokenDefault) ==
  LET expiresAt == Plus(now, TimesThousand(tokens.expires_in))
      refreshToken == IF Falsy(tokens.refresh_token) THEN refreshTokenDefault
                      ELSE tokens.refresh_token
  IN  SessionData(tokens.access_token, tokens.id_token, refreshToken, expiresAt)

\* variant: the lifetime of the tokens is not added to the time of construction
createSessionDataIgnoresLifetime(tokens, refreshTokenDefault) ==
  LET expiresAt == now
      refreshToken == IF Falsy(tokens.refresh_token) THEN refreshTokenDefault
                      ELSE tokens.refresh_token
  IN  IF Falsy(refreshToken) THEN Throw("No refresh token available")
      ELSE SessionData(tokens.access_token, tokens.id_token, refreshToken, expiresAt)

\* variant: the id token is stored as the access token
createSessionDataSwapsTokens(tokens, refreshTokenDefault) ==
  LET expiresAt == Plus(now, TimesThousand(tokens.expires_in))
      refreshToken == IF Falsy(tokens.refresh_token) THEN refreshTokenDefault
                      ELSE tokens.refresh_token
  IN  IF Falsy(refreshToken) THEN Throw("No refresh token available")
      ELSE SessionData(tokens.id_token, tokens.access_token, refreshToken, expiresAt)

createSessionData(tokens, refreshTokenDefault) ==
  LET expiresAt == Plus(now, TimesThousand(tokens.expires_in))
      refreshToken == IF Falsy(tokens.refresh_token) THEN refreshTokenDefault
                      ELSE tokens.refresh_token
  IN  IF Falsy(refreshToken) THEN Throw("No refresh token available")
      ELSE SessionData(tokens.access_token, tokens.id_token, refreshToken, expiresAt)

hasValidSessionFields(session) ==
  /\ session # Null
  /\ session # EmptyString
  /\ IsString(Field(session, "accessToken"))
  /\ IsString(Field(session, "idToken"))
  /\ IsString(Field(session, "refreshToken"))
  /\ IsNumber(Field(session, "expiresAt"))

\* variant: SESSION_MAX_AGE, in seconds, taken as a number of ms
isRefreshableSecondsAsMs(session) ==
  LET maxAge == now - (SESSION_MAX_AGE \div 1000)
  IN  Gt(session.expiresAt, maxAge)

isRefreshable(session) ==
  LET maxAge == now - SESSION_MAX_AGE
  IN  Gt(session.expiresAt, maxAge)

isValidSession(session) ==
  IF ~hasValidSessionFields(session) THEN FALSE
  ELSE Gt(session.expiresAt, now)

\* variant: the exp claim of the id token is consulted as well
sessionNeedsRefreshByToken(session) ==
  IF session = Null THEN FALSE
  ELSE LET timeUntilExpiry == Minus(session.expiresAt, now)
       IN  needsRefresh(session.idToken) \/ Le(timeUntilExpiry, REFRESH_WINDOW)

\* variant: a session with exactly the refresh window left is not refreshed
sessionNeedsRefreshStrict(session) ==
  IF session = Null THEN FALSE
  ELSE LET timeUntilExpiry == Minus(session.expiresAt, now)
       IN  timeUntilExpiry # NaN /\ timeUntilExpiry < REFRESH_WINDOW

sessionNeedsRefresh(session) ==
  IF session = Null THEN FALSE
  ELSE LET timeUntilExpiry == Minus(session.expiresAt, now)
       IN  Le(timeUntilExpiry, REFRESH_WINDOW)

\* variant: the fields of the decoded session are not checked
getSessionUncheckedFields(request) ==
  LET data == parseCookie(SESSION_SECRET, request.cookie.session)
  IN  IF data = Null \/ data = EmptyString THEN Null
      ELSE IF ~Gt(Field(data, "expiresAt"), now) /\ isRefreshable(data) THEN data
      ELSE IF Gt(Field(data, "expiresAt"), now) THEN data ELSE Null

\* variant: only a session that is not expired is returned
getSessionValidOnly(request) ==
  LET data == parseCookie(SESSION_SECRET, request.cookie.session)
  IN  IF data = Null \/ data = EmptyString THEN Null
      ELSE IF ~hasValidSessionFields(data) THEN Null
      ELSE IF isValidSession(data) THEN data ELSE Null

\* variant: every session with the four fields is returned, however old
getSessionNoCeiling(request) ==
  LET data == parseCookie(SESSION_SECRET, request.cookie.session)
  IN  IF data = Null \/ data = EmptyString THEN Null
      ELSE IF ~hasValidSessionFields(data) THEN Null
      ELSE data

\* request.headers.get("Cookie") is the record of the cookies presented
getSession(request) ==
  LET data == parseCookie(SESSION_SECRET, request.cookie.session)
  IN  IF data = Null \/ data = EmptyString THEN Null
      ELSE IF ~hasValidSessionFields(data) THEN Null
      ELSE IF ~isValidSession(data) /\ isRefreshable(data) THEN data
      ELSE IF isValidSession(data) THEN data ELSE Null

createSessionHeader(session) ==
  IF session = Null
  THEN serializeCookie("__session", SESSION_SECRET, EmptyString, 0)
  ELSE serializeCookie("__session", SESSION_SECRET, session, SESSION_MAX_AGE)

(***************************************************************************)
(* utils/auth.ts                                                           *)
(***************************************************************************)
getRequiredEnvVar(name) ==
  LET value == env[name]
  IN  IF Falsy(value) THEN Throw("Missing required environment variable: " \o name)
      ELSE [value |-> value]

getBaseUrl(request) == request.origin

getAuth0Config(request) ==
  LET domain == getRequiredEnvVar("AUTH0_DOMAIN")
      clientId == getRequiredEnvVar("AUTH0_CLIENT_ID")
      clientSecret == getRequiredEnvVar("AUTH0_CLIENT_SECRET")
  IN  IF Threw(domain) THEN domain
      ELSE IF Threw(clientId) THEN clientId
      ELSE IF Threw(clientSecret) THEN clientSecret
      ELSE [domain |-> domain.value,
            clientId |-> clientId.value,
            clientSecret |-> clientSecret.value,
            callbackUrl |-> getBaseUrl(request) \o "/auth/callback",
            audience |-> env.AUTH0_AUDIENCE]

\* the n-th value of crypto.randomUUID()
Uuid(n) == "uuid-" \o ToString(n)

Location(url, query) == [url |-> url, query |-> query]
NoQuery == [noquery |-> TRUE]

\* variant: the cookie holds the state of the request before
createAuthorizationRequestStaleCookie(config) ==
  LET state == Uuid(uuids + 1)
      params == [response_type |-> "code",
                 client_id |-> config.clientId,
                 redirect_uri |-> config.callbackUrl,
                 scope |-> "openid profile email offline_access",
                 state |-> state,
                 audience |-> IF Falsy(config.audience) THEN Undefined ELSE config.audience]
  IN  [url |-> Location("https://" \o config.domain \o "/authorize", params),
       cookieHeader |-> serializeCookie("__auth_state", Unsigned, JStr(Uuid(uuids)),
                                        AUTH_STATE_MAX_AGE)]

createAuthorizationRequest(config) ==
  LET state == Uuid(uuids + 1)
      params == [response_type |-> "code",
                 client_id |-> config.clientId,
                 redirect_uri |-> config.callbackUrl,
                 scope |-> "openid profile email offline_access",
                 state |-> state,
                 audience |-> IF Falsy(config.audience) THEN Undefined ELSE config.audience]
  IN  [url |-> Location("https://" \o config.domain \o "/authorize", params),
       cookieHeader |-> serializeCookie("__auth_state", Unsigned, JStr(state),
                                        AUTH_STATE_MAX_AGE)]

\* variant: a callback that directly follows a callback is refused
verifyStateSingleUse(request, state) ==
  LET savedState == parseCookie(Unsigned, request.cookie.state)
  IN  savedState = JStr(state) /\ resp.op # "callback"

\* variant: a request without state cookie passes
verifyStateLenient(request, state) ==
  LET savedState == parseCookie(Unsigned, request.cookie.state)
  IN  savedState = Null \/ savedState = JStr(state)

verifyState(request, state) ==
  LET savedState == parseCookie(Unsigned, request.cookie.state)
  IN  savedState = JStr(state)

(***************************************************************************)
(* The token endpoint.  An answer of the authorization server to one       *)
(* POST /oauth/token is a network error, a status without a readable JSON  *)
(* body, or a status with a token response body.                           *)
(***************************************************************************)
NetworkError == [fetch |-> "network error"]
HttpAnswer(status, body) == [status |-> status, body |-> body]
NoAnswer == [noanswer |-> TRUE]

ResponseOk(answer) == answer.status >= 200 /\ answer.status <= 299

\* the request body of the authorization_code grant
ExchangeCall(config, code) ==
  [url |-> "https://" \o config.domain \o "/oauth/token",
   grant_type |-> "authorization_code",
   client_id |-> config.clientId,
   client_secret |-> config.clientSecret,
   code |-> code,
   redirect_uri |-> config.callbackUrl]

\* variant: the status of the response is not looked at
exchangeCodeForTokensIgnoresStatus(config, code, answer) ==
  IF answer = NetworkError THEN Throw("fetch failed")
  ELSE IF answer.body = GarbageText THEN Throw("Unexpected token in JSON")
  ELSE answer.body

exchangeCodeForTokens(config, code, answer) ==
  IF answer = NetworkError THEN Throw("fetch failed")
  ELSE IF ~ResponseOk(answer) THEN Throw("Token exchange failed")
  ELSE IF answer.body = GarbageText THEN Throw("Unexpected token in JSON")
  ELSE answer.body

\* the request body of the refresh_token grant
RefreshCall(config, refreshToken) ==
  [url |-> "https://" \o config.domain \o "/oauth/token",
   grant_type |-> "refresh_token",
   client_id |-> config.clientId,
   client_secret |-> config.clientSecret,
   refresh_token |-> refreshToken]

\* variant: the status of the response is not looked at
refreshTokensIgnoresStatus(config, refreshToken, answer) ==
  IF answer = NetworkError THEN Throw("fetch failed")
  ELSE IF answer.body = GarbageText THEN Throw("Unexpected token in JSON")
  ELSE answer.body

refreshTokens(config, refreshToken, answer) ==
  IF answer = NetworkError THEN Throw("fetch failed")
  ELSE IF ~ResponseOk(answer) THEN Throw("Token refresh failed")
  ELSE IF answer.body = GarbageText THEN Throw("Unexpected token in JSON")
  ELSE answer.body

(***************************************************************************)
(* utils/dev-auth.ts                                                       *)
(***************************************************************************)
getEnv(name) == env[name]

getMode == IF Falsy(env.MODE) THEN "development" ELSE env.MODE

\* variant: a mode that cannot be determined does not count as development
shouldSkipAuthModeRequired ==
  LET nodeEnv == env.MODE
      skipAuth == getEnv("SKIP_AUTH")
  IN  IF nodeEnv = "development" THEN skipAuth # "false"
      ELSE skipAuth = "true"

shouldSkipAuth ==
  LET nodeEnv == getMode
      skipAuth == getEnv("SKIP_AUTH")
  IN  IF nodeEnv = "development" THEN skipAuth # "false"
      ELSE skipAuth = "true"

createMockJwt ==
  LET encodedHeader == btoa(JsonText(MockJwtHeader))
      encodedPayload == btoa(JsonText(MockJwtPayload(now)))
  IN  encodedHeader \o "." \o encodedPayload \o ".mock-signature"

\* variant: the dev session lasts two hours
createDevSessionShort ==
  LET twoHours == 2 * 60 * 60
  IN  SessionData("dev-access-token", createMockJwt, "dev-refresh-token", now + twoHours)

createDevSession ==
  LET oneYear == 365 * 24 * 60 * 60
  IN  SessionData("dev-access-token", createMockJwt, "dev-refresh-token", now + oneYear)

(***************************************************************************)
(* Requests and responses.  A response records, besides what the handler   *)
(* returns (or throws), the results of its verifyState calls, the calls    *)
(* it made to the token endpoint, the answer it consumed and the time of   *)
(* the request.                                                            *)
(***************************************************************************)
Origin == "https://app.example"

Request(code, state, cookie) ==
  [origin |-> Origin, code |-> code, state |-> state, cookie |-> cookie]

NoLocation == [nolocation |-> TRUE]
NotCalled == [notcalled |-> TRUE]

Response(op, request, outcome, error, location, setCookie, session, verified, calls, answer) ==
  [op |-> op, request |-> request, outcome |-> outcome, error |-> error,
   location |-> location, setCookie |-> setCookie, session |-> session,
   verified |-> verified, calls |-> calls, answer |-> answer, input |-> NotCalled,
   time |-> now]

(***************************************************************************)
(* routes/login.tsx                                                        *)
(***************************************************************************)
\* variant: an authorization request is started even when a session exists
loginLoaderAlwaysStarts(request) ==
  LET config == getAuth0Config(request)
      auth == createAuthorizationRequest(config)
  IN  IF Threw(config)
      THEN Response("login", request, "throw", config.threw, NoLocation, NoHeader,
                    Null, <<>>, <<>>, NoAnswer)
      ELSE Response("login", request, "redirect", "", auth.url, auth.cookieHeader,
                    Null, <<>>, <<>>, NoAnswer)

loginLoader(request) ==
  LET session == getSession(request)
      config == getAuth0Config(request)
      auth == createAuthorizationRequest(config)
  IN  IF session # Null
      THEN Response("login", request, "redirect", "", Location("/", NoQuery), NoHeader,
                    Null, <<>>, <<>>, NoAnswer)
      ELSE IF Threw(config)
      THEN Response("login", request, "throw", config.threw, NoLocation, NoHeader,
                    Null, <<>>, <<>>, NoAnswer)
      ELSE Response("login", request, "redirect", "", auth.url, auth.cookieHeader,
                    Null, <<>>, <<>>, NoAnswer)

(***************************************************************************)
(* routes/logout.tsx.  The request carries the returnTo parameter; a       *)
(* returnTo that is a path resolves against the origin of callbackUrl.     *)
(***************************************************************************)
LogoutRequest(returnTo, cookie) ==
  [origin |-> Origin, code |-> NoParam, state |-> NoParam, cookie |-> cookie,
   returnTo |-> returnTo]

getLogoutUrl(config, returnTo) ==
  Location("https://" \o config.domain \o "/v2/logout",
           [client_id |-> config.clientId, returnTo |-> returnTo])

\* variant: the session cookie is cleared in dev mode as well
handleLogoutAlwaysClears(request) ==
  LET returnTo == IF Falsy(request.returnTo) THEN "/" ELSE request.returnTo
      config == getAuth0Config(request)
      logoutUrl == getLogoutUrl(config, getBaseUrl(request) \o returnTo)
      sessionHeader == serializeCookie("__session", SESSION_SECRET, EmptyString, 0)
  IN  IF shouldSkipAuth
      THEN Response("logout", request, "redirect", "", Location(returnTo, NoQuery),
                    sessionHeader, Null, <<>>, <<>>, NoAnswer)
      ELSE IF Threw(config)
      THEN Response("logout", request, "throw", config.threw, NoLocation, NoHeader,
                    Null, <<>>, <<>>, NoAnswer)
      ELSE Response("logout", request, "redirect", "", logoutUrl, sessionHeader,
                    Null, <<>>, <<>>, NoAnswer)

handleLogout(request) ==
  LET returnTo == IF Falsy(request.returnTo) THEN "/" ELSE request.returnTo
      config == getAuth0Config(request)
      logoutUrl == getLogoutUrl(config, getBaseUrl(request) \o returnTo)
      sessionHeader == serializeCookie("__session", SESSION_SECRET, EmptyString, 0)
  IN  IF shouldSkipAuth
      THEN Response("logout", request, "redirect", "", Location(returnTo, NoQuery),
                    NoHeader, Null, <<>>, <<>>, NoAnswer)
      ELSE IF Threw(config)
      THEN Response("logout", request, "throw", config.threw, NoLocation, NoHeader,
                    Null, <<>>, <<>>, NoAnswer)
      ELSE Response("logout", request, "redirect", "", logoutUrl, sessionHeader,
                    Null, <<>>, <<>>, NoAnswer)

(***************************************************************************)
(* routes/callback.tsx                                                     *)
(***************************************************************************)
\* the try block of the loader: exchange, session, redirect, and its catch
callbackExchange(request, answer) ==
  LET code == request.code
      config == getAuth0Config(request)
      tokens == exchangeCodeForTokens(config, code, answer)
      session == createSessionData(tokens, Undefined)
      sessionHeader == createSessionHeader(session)
      failed == Location("/login", [error |-> "auth_callback_failed"])
  IN  IF Threw(config)
      THEN Response("callback", request, "redirect", "", failed, NoHeader,
                    Null, <<TRUE>>, <<>>, NoAnswer)
      ELSE IF Threw(tokens) \/ Threw(session)
      THEN Response("callback", request, "redirect", "", failed, NoHeader,
                    Null, <<TRUE>>, <<ExchangeCall(config, code)>>, answer)
      ELSE Response("callback", request, "redirect", "", Location("/", NoQuery),
                    sessionHeader, session, <<TRUE>>,
                    <<ExchangeCall(config, code)>>, answer)

\* variant: the state is verified before the parameters are validated
callbackLoaderVerifiesFirst(request, answer) ==
  LET code == request.code
      state == request.state
      isValidState == verifyState(request, state)
  IN  IF ~isValidState
      THEN Response("callback", request, "redirect", "",
                    Location("/login", [error |-> "invalid_state"]), NoHeader,
                    Null, <<FALSE>>, <<>>, NoAnswer)
      ELSE IF Falsy(code) \/ Falsy(state)
      THEN Response("callback", request, "throw", "Invalid callback parameters",
                    NoLocation, NoHeader, Null, <<TRUE>>, <<>>, NoAnswer)
      ELSE callbackExchange(request, answer)

\* variant: missing parameters are answered like a state that does not verify
callbackLoaderRedirectsBadParams(request, answer) ==
  LET code == request.code
      state == request.state
      isValidState == verifyState(request, state)
  IN  IF Falsy(code) \/ Falsy(state) \/ ~isValidState
      THEN Response("callback", request, "redirect", "",
                    Location("/login", [error |-> "invalid_state"]), NoHeader,
                    Null, <<FALSE>>, <<>>, NoAnswer)
      ELSE callbackExchange(request, answer)

callbackLoader(request, answer) ==
  LET code == request.code
      state == request.state
      isValidState == verifyState(request, state)
  IN  IF Falsy(code) \/ Falsy(state)
      THEN Response("callback", request, "throw", "Invalid callback parameters",
                    NoLocation, NoHeader, Null, <<>>, <<>>, NoAnswer)
      ELSE IF ~isValidState
      THEN Response("callback", request, "redirect", "",
                    Location("/login", [error |-> "invalid_state"]), NoHeader,
                    Null, <<FALSE>>, <<>>, NoAnswer)
      ELSE callbackExchange(request, answer)

(***************************************************************************)
(* utils/refresh.ts                                                        *)
(***************************************************************************)
RefreshResult(session, headers, calls, answer) ==
  [session |-> session, headers |-> headers, calls |-> calls, answer |-> answer]

\* variant: a failed refresh hands back the session it was given
refreshSessionIfNeededKeepsStale(request, session, answer) ==
  LET config == getAuth0Config(request)
      tokens == refreshTokens(config, session.refreshToken, answer)
      newSession == createSessionData(tokens, session.refreshToken)
      sessionHeader == createSessionHeader(newSession)
  IN  IF session = Null \/ ~sessionNeedsRefresh(session)
      THEN RefreshResult(session, NoHeader, <<>>, NoAnswer)
      ELSE IF Threw(config)
      THEN RefreshResult(session, NoHeader, <<>>, NoAnswer)
      ELSE IF Threw(tokens) \/ Threw(newSession)
      THEN RefreshResult(session, NoHeader,
                         <<RefreshCall(config, session.refreshToken)>>, answer)
      ELSE RefreshResult(newSession, sessionHeader,
                         <<RefreshCall(config, session.refreshToken)>>, answer)

\* variant: the session cookie is written again when no refresh is due
refreshSessionIfNeededAlwaysWrites(request, session, answer) ==
  LET config == getAuth0Config(request)
      tokens == refreshTokens(config, session.refreshToken, answer)
      newSession == createSessionData(tokens, session.refreshToken)
      sessionHeader == createSessionHeader(newSession)
  IN  IF session = Null \/ ~sessionNeedsRefresh(session)
      THEN RefreshResult(session, createSessionHeader(session), <<>>, NoAnswer)
      ELSE IF Threw(config)
      THEN RefreshResult(Null, createSessionHeader(Null), <<>>, NoAnswer)
      ELSE IF Threw(tokens) \/ Threw(newSession)
      THEN RefreshResult(Null, createSessionHeader(Null),
                         <<RefreshCall(config, session.refreshToken)>>, answer)
      ELSE RefreshResult(newSession, sessionHeader,
                         <<RefreshCall(config, session.refreshToken)>>, answer)

\* variant: after a refresh the cookie is written from the session given
refreshSessionIfNeededStaleHeader(request, session, answer) ==
  LET config == getAuth0Config(request)
      tokens == refreshTokens(config, session.refreshToken, answer)
      newSession == createSessionData(tokens, session.refreshToken)
      sessionHeader == createSessionHeader(session)
  IN  IF session = Null \/ ~sessionNeedsRefresh(session)
      THEN RefreshResult(session, NoHeader, <<>>, NoAnswer)
      ELSE IF Threw(config)
      THEN RefreshResult(Null, createSessionHeader(Null), <<>>, NoAnswer)
      ELSE IF Threw(tokens) \/ Threw(newSession)
      THEN RefreshResult(Null, createSessionHeader(Null),
                         <<RefreshCall(config, session.refreshToken)>>, answer)
      ELSE RefreshResult(newSession, sessionHeader,
                         <<RefreshCall(config, session.refreshToken)>>, answer)

\* variant: a refresh call that got no answer leaves session and cookie alone
refreshSessionIfNeededSparesOutage(request, session, answer) ==
  LET config == getAuth0Config(request)
      tokens == refreshTokens(config, session.refreshToken, answer)
      newSession == createSessionData(tokens, session.refreshToken)
      sessionHeader == createSessionHeader(newSession)
  IN  IF session = Null \/ ~sessionNeedsRefresh(session)
      THEN RefreshResult(session, NoHeader, <<>>, NoAnswer)
      ELSE IF Threw(config)
      THEN RefreshResult(Null, createSessionHeader(Null), <<>>, NoAnswer)
      ELSE IF answer = NetworkError
      THEN RefreshResult(session, NoHeader,
                         <<RefreshCall(config, session.refreshToken)>>, answer)
      ELSE IF Threw(tokens) \/ Threw(newSession)
      THEN RefreshResult(Null, createSessionHeader(Null),
                         <<RefreshCall(config, session.refreshToken)>>, answer)
      ELSE RefreshResult(newSession, sessionHeader,
                         <<RefreshCall(config, session.refreshToken)>>, answer)

\* variant: a failed refresh returns no session but leaves the cookie alone
refreshSessionIfNeededKeepsCookie(request, session, answer) ==
  LET config == getAuth0Config(request)
      tokens == refreshTokens(config, session.refreshToken, answer)
      newSession == createSessionData(tokens, session.refreshToken)
      sessionHeader == createSessionHeader(newSession)
  IN  IF session = Null \/ ~sessionNeedsRefresh(session)
      THEN RefreshResult(session, NoHeader, <<>>, NoAnswer)
      ELSE IF Threw(config)
      THEN RefreshResult(Null, NoHeader, <<>>, NoAnswer)
      ELSE IF Threw(tokens) \/ Threw(newSession)
      THEN RefreshResult(Null, NoHeader,
                         <<RefreshCall(config, session.refreshToken)>>, answer)
      ELSE RefreshResult(newSession, sessionHeader,
                         <<RefreshCall(config, session.refreshToken)>>, answer)

\* variant: a failed refresh call is made a second time
refreshSessionIfNeededRetries(request, session, answer) ==
  LET config == getAuth0Config(request)
      tokens == refreshTokens(config, session.refreshToken, answer)
      newSession == createSessionData(tokens, session.refreshToken)
      sessionHeader == createSessionHeader(newSession)
  IN  IF session = Null \/ ~sessionNeedsRefresh(session)
      THEN RefreshResult(session, NoHeader, <<>>, NoAnswer)
      ELSE IF Threw(config)
      THEN RefreshResult(Null, createSessionHeader(Null), <<>>, NoAnswer)
      ELSE IF Threw(tokens) \/ Threw(newSession)
      THEN RefreshResult(Null, createSessionHeader(Null),
                         <<RefreshCall(config, session.refreshToken),
                           RefreshCall(config, session.refreshToken)>>, answer)
      ELSE RefreshResult(newSession, sessionHeader,
                         <<RefreshCall(config, session.refreshToken)>>, answer)

refreshSessionIfNeeded(request, session, answer) ==
  LET config == getAuth0Config(request)
      tokens == refreshTokens(config, session.refreshToken, answer)
      newSession == createSessionData(tokens, session.refreshToken)
      sessionHeader == createSessionHeader(newSession)
  IN  IF session = Null \/ ~sessionNeedsRefresh(session)
      THEN RefreshResult(session, NoHeader, <<>>, NoAnswer)
      ELSE IF Threw(config)
      THEN RefreshResult(Null, createSessionHeader(Null), <<>>, NoAnswer)
      ELSE IF Threw(tokens) \/ Threw(newSession)
      THEN RefreshResult(Null, createSessionHeader(Null),
                         <<RefreshCall(config, session.refreshToken)>>, answer)
      ELSE RefreshResult(newSession, sessionHeader,
                         <<RefreshCall(config, session.refreshToken)>>, answer)

(***************************************************************************)
(* utils/loader.ts.  The response also records, as input, the session      *)
(* that was handed to refreshSessionIfNeeded.                              *)
(***************************************************************************)
\* variant: in dev mode the session of the request's cookie is preferred
getAuthLoaderDataReadsCookie(request, answer) ==
  LET currentSession == getSession(request)
      r == refreshSessionIfNeeded(request, currentSession, answer)
  IN  IF shouldSkipAuth
      THEN [Response("getAuthLoaderData", request, "data", "", NoLocation, NoHeader,
                     IF currentSession = Null THEN createDevSession ELSE currentSession,
                     <<>>, <<>>, NoAnswer)
            EXCEPT !.input = currentSession]
      ELSE [Response("getAuthLoaderData", request, "data", "", NoLocation, r.headers,
                     r.session, <<>>, r.calls, r.answer)
            EXCEPT !.input = currentSession]

getAuthLoaderData(request, answer) ==
  LET currentSession == getSession(request)
      r == refreshSessionIfNeeded(request, currentSession, answer)
  IN  IF shouldSkipAuth
      THEN Response("getAuthLoaderData", request, "data", "", NoLocation, NoHeader,
                    createDevSession, <<>>, <<>>, NoAnswer)
      ELSE [Response("getAuthLoaderData", request, "data", "", NoLocation, r.headers,
                     r.session, <<>>, r.calls, r.answer)
            EXCEPT !.input = currentSession]

(***************************************************************************)
(* The environment of the process, the answers of the authorization        *)
(* server and what a client can present.                                   *)
(***************************************************************************)
Env(mode, skipAuth, clientSecret, sessionSecret) ==
  [MODE |-> mode, SKIP_AUTH |-> skipAuth,
   AUTH0_DOMAIN |-> "tenant.auth0.example", AUTH0_CLIENT_ID |-> "client-id",
   AUTH0_CLIENT_SECRET |-> clientSecret, AUTH0_AUDIENCE |-> Undefined,
   SESSION_SECRET |-> sessionSecret]

EnvChoices ==
  { Env("production", Undefined, "client-secret", "session-secret"),
    Env("production", Undefined, Undefined, "session-secret"),
    Env("development", Undefined, "client-secret", Undefined) }

TokenBody(at, it, rt, ei) ==
  [access_token |-> at, id_token |-> it, refresh_token |-> rt, expires_in |-> ei]

CompleteBody == TokenBody("at", "it", "rtA", 3600)

\* token responses: complete ones, and ones with one field missing or empty
TokenBodies ==
  {CompleteBody, TokenBody("at", "it", "rtB", 300)}
  \cup {[CompleteBody EXCEPT !.access_token = Undefined],
        [CompleteBody EXCEPT !.id_token = Undefined],
        [CompleteBody EXCEPT !.refresh_token = Undefined],
        [CompleteBody EXCEPT !.refresh_token = ""],
        [CompleteBody EXCEPT !.expires_in = UndefinedNum]}

Answers ==
  {NetworkError, HttpAnswer(401, GarbageText), HttpAnswer(200, GarbageText),
   HttpAnswer(403, CompleteBody)}
  \cup {HttpAnswer(200, b) : b \in TokenBodies}

\* what the user agent sends for a cookie of its jar: nothing once Max-Age is over
BrowserSends(c) ==
  IF c = NoCookie THEN Absent
  ELSE IF c.until <= now THEN Absent ELSE c.wire

\* a client may also withhold the cookie, replay it after its Max-Age, send the
\* empty value, or send a value it signed with a key of its own
SessionCookieChoices ==
  {BrowserSends(jar.session), Absent, EmptyValue,
   [sig |-> "attacker-key",
    body |-> JsonStringify(SessionData("at", "it", "rtA", now + 3600))]}
  \cup (IF jar.session = NoCookie THEN {} ELSE {jar.session.wire})

StateParams == {NoParam, "", "evil"} \cup {Uuid(n) : n \in 1..uuids}

StateCookieChoices ==
  {BrowserSends(jar.state), Absent,
   [sig |-> Unsigned, body |-> GarbageText],
   [sig |-> Unsigned, body |-> JStr("evil")]}

CodeParams == {NoParam, "", "code-1"}

ReturnToParams == {NoParam, "/account"}

\* the answers to draw for a handler: one when it does not consult the endpoint
AnswersFor(r) == IF r.answer = NoAnswer THEN {NetworkError} ELSE Answers

\* the user agent stores or deletes a cookie as Set-Cookie tells it
ApplySetCookie(j, header) ==
  IF header = NoHeader THEN j
  ELSE LET slot == IF header.name = "__session" THEN "session" ELSE "state"
       IN  [j EXCEPT ![slot] =
              IF header.maxAge = 0 THEN NoCookie
              ELSE [wire |-> header.value, until |-> now + header.maxAge]]

(***************************************************************************)
(* Specification.                                                          *)
(***************************************************************************)
NoProbe == [fn |-> "none"]

\* the authorization server at start, with a refresh-token policy
AuthServer(policy) == [policy |-> policy, revoked |-> {}, issued |-> 0, exchanges |-> 0]

\* the token endpoint failed: no answer, an error status, or no JSON body
EndpointFailed(answer) ==
  \/ answer = NetworkError
  \/ ~ResponseOk(answer)
  \/ answer.body = GarbageText

\* loggedOut after the response r: set by a refresh call that failed, reset
\* by a callback that created a session
LoggedOutAfter(r) ==
  IF r.op = "getAuthLoaderData" /\ r.calls # <<>> /\ EndpointFailed(r.answer) THEN TRUE
  ELSE IF r.op = "callback" /\ r.session # Null THEN FALSE
  ELSE loggedOut

Init ==
  /\ now = StartTime
  /\ advances = 0
  /\ env \in EnvChoices
  /\ jar = [session |-> NoCookie, state |-> NoCookie]
  /\ uuids = 0
  /\ resp = [op |-> "none"]
  /\ probe = NoProbe
  /\ loggedOut = FALSE
  /\ flight = <<>>
  /\ authServer = AuthServer("any")

Advance ==
  /\ advances < MaxAdvances
  /\ \E d \in ClockSteps : now' = now + d
  /\ advances' = advances + 1
  /\ UNCHANGED <<env, jar, uuids, resp, probe, loggedOut, flight, authServer>>

Login ==
  /\ uuids < MaxLogins
  /\ \E c \in SessionCookieChoices :
       LET request == Request(NoParam, NoParam,
                              [session |-> c, state |-> BrowserSends(jar.state)])
           r == loginLoader(request)
       IN  /\ resp' = r
           /\ jar' = ApplySetCookie(jar, r.setCookie)
           /\ uuids' = IF r.setCookie = NoHeader THEN uuids ELSE uuids + 1
  /\ UNCHANGED <<now, advances, env, probe, loggedOut, flight, authServer>>

Callback ==
  /\ \E code \in CodeParams, state \in StateParams, c \in StateCookieChoices :
       LET request == Request(code, state,
                              [session |-> BrowserSends(jar.session), state |-> c])
       IN  \E answer \in AnswersFor(callbackLoader(request, HttpAnswer(200, CompleteBody))) :
             LET r == callbackLoader(request, answer)
             IN  /\ resp' = r
                 /\ jar' = ApplySetCookie(jar, r.setCookie)
                 /\ loggedOut' = LoggedOutAfter(r)
  /\ UNCHANGED <<now, advances, env, uuids, probe, flight, authServer>>

Loader ==
  /\ \E c \in SessionCookieChoices :
       LET request == Request(NoParam, NoParam,
                              [session |-> c, state |-> BrowserSends(jar.state)])
       IN  \E answer \in AnswersFor(getAuthLoaderData(request, HttpAnswer(200, CompleteBody))) :
             LET r == getAuthLoaderData(request, answer)
             IN  /\ resp' = r
                 /\ jar' = ApplySetCookie(jar, r.setCookie)
                 /\ loggedOut' = LoggedOutAfter(r)
  /\ UNCHANGED <<now, advances, env, uuids, probe, flight, authServer>>

Logout ==
  /\ \E returnTo \in ReturnToParams, c \in SessionCookieChoices :
       LET request == LogoutRequest(returnTo,
                                    [session |-> c, state |-> BrowserSends(jar.state)])
           r == handleLogout(request)
       IN  /\ resp' = r
           /\ jar' = ApplySetCookie(jar, r.setCookie)
           /\ loggedOut' = LoggedOutAfter(r)
  /\ UNCHANGED <<now, advances, env, uuids, probe, flight, authServer>>

Next == Advance \/ Login \/ Callback \/ Loader \/ Logout

Spec == Init /\ [][Next]_vars

(***************************************************************************)
(* Concurrent requests of one user agent.  A loader request is sent with   *)
(* the cookies the user agent holds at that time, handled later (the       *)
(* handler awaits one answer of the token endpoint, which serves one call  *)
(* at a time), and its Set-Cookie is applied when the response arrives.    *)
(* The authorization server follows a refresh-token policy: the refresh    *)
(* token stays usable and is not sent again ("reusable"), or every         *)
(* refresh returns a new one and revokes the one used ("rotating").  It    *)
(* exchanges a code once per login and issues tokens of 300 s.             *)
(***************************************************************************)
Policies == {"reusable", "rotating"}

\* the body of an error response: JSON without token fields
ErrorBody == TokenBody(Undefined, Undefined, Undefined, UndefinedNum)

TokenEndpoint(server, call) ==
  LET n == ToString(server.issued + 1)
      issuedTokens == TokenBody("at-" \o n, "it", "rt-" \o n, 300)
  IN  IF call.grant_type = "authorization_code"
      THEN IF server.exchanges < uuids THEN HttpAnswer(200, issuedTokens)
           ELSE HttpAnswer(403, ErrorBody)
      ELSE IF call.refresh_token \in server.revoked THEN HttpAnswer(403, ErrorBody)
      ELSE IF server.policy = "rotating" THEN HttpAnswer(200, issuedTokens)
      ELSE HttpAnswer(200, [issuedTokens EXCEPT !.refresh_token = Undefined])

\* the call is answered by the server, or it does not get through
ServerAnswers(server, call) == {TokenEndpoint(server, call), NetworkError}

ServerAfter(server, call, answer) ==
  IF answer = NetworkError \/ ~ResponseOk(answer) THEN server
  ELSE [server EXCEPT
          !.issued = @ + 1,
          !.exchanges = IF call.grant_type = "authorization_code" THEN @ + 1 ELSE @,
          !.revoked = IF call.grant_type = "refresh_token" /\ server.policy = "rotating"
                      THEN @ \cup {call.refresh_token} ELSE @]

InitConc ==
  /\ now = StartTime
  /\ advances = 0
  /\ env \in EnvChoices
  /\ jar = [session |-> NoCookie, state |-> NoCookie]
  /\ uuids = 0
  /\ resp = [op |-> "none"]
  /\ probe = NoProbe
  /\ loggedOut = FALSE
  /\ flight = <<>>
  /\ authServer \in {AuthServer(p) : p \in Policies}

\* the authorization server sends the user agent back to the callback route
\* with a code and the state of the authorization request
AuthCallback ==
  /\ jar.state # NoCookie
  /\ LET request == Request("code-1", jar.state.wire.body.str,
                            [session |-> BrowserSends(jar.session),
                             state |-> BrowserSends(jar.state)])
         dry == callbackLoader(request, NetworkError)
     IN  \E answer \in (IF dry.calls = <<>> THEN {NoAnswer}
                        ELSE ServerAnswers(authServer, dry.calls[1])) :
           LET r == callbackLoader(request, answer)
           IN  /\ resp' = r
               /\ jar' = ApplySetCookie(jar, r.setCookie)
               /\ loggedOut' = LoggedOutAfter(r)
               /\ authServer' = IF r.calls = <<>> THEN authServer
                                ELSE ServerAfter(authServer, r.calls[1], answer)
  /\ UNCHANGED <<now, advances, env, uuids, probe, flight>>

Send ==
  /\ Len(flight) < MaxRequests
  /\ flight' = Append(flight,
                      [request |-> Request(NoParam, NoParam,
                                           [session |-> BrowserSends(jar.session),
                                            state |-> BrowserSends(jar.state)]),
                       phase |-> "sent",
                       response |-> NotCalled])
  /\ UNCHANGED <<now, advances, env, jar, uuids, resp, probe, loggedOut, authServer>>

Handle ==
  /\ \E i \in 1..Len(flight) :
       /\ flight[i].phase = "sent"
       /\ LET request == flight[i].request
              dry == getAuthLoaderData(request, NetworkError)
          IN  \E answer \in (IF dry.calls = <<>> THEN {NoAnswer}
                             ELSE ServerAnswers(authServer, dry.calls[1])) :
                LET r == getAuthLoaderData(request, answer)
                IN  /\ flight' = [flight EXCEPT ![i] = [request |-> request,
                                                        phase |-> "handled",
                                                        response |-> r]]
                    /\ authServer' = IF r.calls = <<>> THEN authServer
                                     ELSE ServerAfter(authServer, r.calls[1], answer)
  /\ UNCHANGED <<now, advances, env, jar, uuids, resp, probe, loggedOut>>

Deliver ==
  /\ \E i \in 1..Len(flight) :
       /\ flight[i].phase = "handled"
       /\ LET r == flight[i].response
          IN  /\ resp' = r
              /\ jar' = ApplySetCookie(jar, r.setCookie)
              /\ loggedOut' = LoggedOutAfter(r)
       /\ flight' = [flight EXCEPT ![i].phase = "delivered"]
  /\ UNCHANGED <<now, advances, env, uuids, probe, authServer>>

NextConc == Advance \/ Login \/ AuthCallback \/ Send \/ Handle \/ Deliver

SpecConc == InitConc /\ [][NextConc]_vars

(***************************************************************************)
(* Direct calls of the exported session functions, on sessions on each     *)
(* side of the refresh window, of the expiry and of the cookie ceiling.    *)
(***************************************************************************)
ProbeOffsets ==
  {0 - SESSION_MAX_AGE - 1, 0 - SESSION_MAX_AGE, 1 - SESSION_MAX_AGE, 0 - 1, 0, 1,
   REFRESH_WINDOW - 1, REFRESH_WINDOW, REFRESH_WINDOW + 1, 3600}

ProbeSessions ==
  {Null} \cup {SessionData("at", "it", "rtA", StartTime + d) : d \in ProbeOffsets}

CallSessionNeedsRefresh ==
  /\ \E s \in ProbeSessions :
       probe' = [fn |-> "sessionNeedsRefresh", session |-> s, time |-> now,
                 result |-> sessionNeedsRefresh(s)]
  /\ UNCHANGED <<now, advances, env, jar, uuids, resp, loggedOut, flight, authServer>>

\* sessions to write: the ones above, one with an empty refresh token and one
\* whose expiresAt is NaN (typeof NaN is "number")
RoundTripSessions ==
  (ProbeSessions \ {Null})
  \cup {SessionData("at", "it", "", StartTime + 3600),
        SessionData("at", "it", "rtA", NaN)}

\* cookies to read: the ones createSessionHeader writes for a session
\* (written), and ones it did not write: none, the empty value, text that
\* does not decode, a foreign signature, a body without refreshToken
ProbeCookies ==
  {[written |-> s, wire |-> createSessionHeader(s).value] : s \in RoundTripSessions}
  \cup {[written |-> Null, wire |-> w] :
          w \in {Absent, EmptyValue,
                 [sig |-> SESSION_SECRET, body |-> GarbageText],
                 [sig |-> "attacker-key",
                  body |-> JsonStringify(SessionData("at", "it", "rtA", StartTime + 3600))],
                 [sig |-> SESSION_SECRET,
                  body |-> JsonStringify(SessionData("at", "it", Undefined,
                                                     StartTime + 3600))]}}

CallGetSession ==
  /\ \E c \in ProbeCookies :
       LET request == Request(NoParam, NoParam, [session |-> c.wire, state |-> Absent])
       IN  probe' = [fn |-> "getSession", written |-> c.written, wire |-> c.wire,
                     time |-> now, result |-> getSession(request)]
  /\ UNCHANGED <<now, advances, env, jar, uuids, resp, loggedOut, flight, authServer>>

\* sessions to write a header for: the ones createSessionData makes of token
\* responses with lifetimes of five minutes, one hour, one day and two
\* days, the dev session, and no session
LifetimeChoices == {300, 3600, 24 * 60 * 60, 2 * 24 * 60 * 60}

HeaderSessions ==
  {createSessionData(TokenBody("at", "it", "rtA", ei), Undefined) : ei \in LifetimeChoices}
  \cup {createDevSession, Null}

CallCreateSessionHeader ==
  /\ \E s \in HeaderSessions :
       probe' = [fn |-> "createSessionHeader", session |-> s, time |-> now,
                 result |-> createSessionHeader(s)]
  /\ UNCHANGED <<now, advances, env, jar, uuids, resp, loggedOut, flight, authServer>>


(***************************************************************************)
(* The routes under every setting of the dev-mode gate: the process starts *)
(* with MODE and SKIP_AUTH each unset or set, a complete configuration,    *)
(* and a user agent that holds no session cookie or one the server wrote.  *)
(***************************************************************************)
Modes == {Undefined, "", "development", "production"}
SkipAuthValues == {Undefined, "true", "false", "1"}

GateEnvChoices ==
  {Env(mode, skipAuth, "client-secret", "session-secret") :
     mode \in Modes, skipAuth \in SkipAuthValues}

InitEnv ==
  /\ now = StartTime
  /\ advances = 0
  /\ env \in GateEnvChoices
  /\ jar \in {[session |-> NoCookie, state |-> NoCookie],
              ApplySetCookie([session |-> NoCookie, state |-> NoCookie],
                             createSessionHeader(
                               createSessionData(TokenBody("at", "it", "rtB", 300),
                                                 Undefined)))}
  /\ uuids = 0
  /\ resp = [op |-> "none"]
  /\ probe = NoProbe
  /\ loggedOut = FALSE
  /\ flight = <<>>
  /\ authServer = AuthServer("any")

CallShouldSkipAuth ==
  /\ probe' = [fn |-> "shouldSkipAuth", time |-> now, result |-> shouldSkipAuth]
  /\ UNCHANGED <<now, advances, env, jar, uuids, resp, loggedOut, flight, authServer>>

NextEnv == Advance \/ Login \/ Loader \/ Logout \/ CallShouldSkipAuth

SpecEnv == InitEnv /\ [][NextEnv]_vars

\* tokens to decode: the ones above, texts without a dot, and the mock token
ProbeTokens ==
  {JoinSegments(parts) : parts \in TokenSegments}
  \cup {"", "not-a-jwt", btoa(JsonText(IdTokenHeader)), createMockJwt}

CallParseJwt ==
  /\ \E token \in ProbeTokens :
       probe' = [fn |-> "parseJwt", token |-> token, time |-> now,
                 result |-> parseJwtCall(token).result,
                 log |-> parseJwtCall(token).log]
  /\ UNCHANGED <<now, advances, env, jar, uuids, resp, loggedOut, flight, authServer>>

CallGetUserFromJwt ==
  /\ \E token \in ProbeTokens :
       probe' = [fn |-> "getUserFromJwt", token |-> token, time |-> now,
                 result |-> getUserFromJwtCall(token).result,
                 log |-> getUserFromJwtCall(token).log]
  /\ UNCHANGED <<now, advances, env, jar, uuids, resp, loggedOut, flight, authServer>>

\* token contents of a session: opaque texts, an id token that is current
\* and one whose exp claim is long past, another refresh token
TokenContents ==
  LET h == btoa(JsonText(IdTokenHeader))
  IN  {[accessToken |-> "at", idToken |-> h \o "." \o btoa(JsonText(IdTokenPayload)) \o ".sig",
        refreshToken |-> "rtA"],
       [accessToken |-> "at", idToken |-> h \o "." \o btoa(JsonText(ExpiredPayload)) \o ".sig",
        refreshToken |-> "rtA"],
       [accessToken |-> h \o "." \o btoa(JsonText(ExpiredPayload)) \o ".sig",
        idToken |-> "it", refreshToken |-> "rtB"]}

\* what the request path makes of a session read from its cookie: whether
\* getSession returns it, its classification, and whether
\* refreshSessionIfNeeded calls the refresh endpoint
Classify(session) ==
  LET request == Request(NoParam, NoParam,
                         [session |-> createSessionHeader(session).value,
                          state |-> Absent])
      read == getSession(request)
      refreshed == refreshSessionIfNeeded(request, read, HttpAnswer(200, CompleteBody))
  IN  [session |-> session,
       read |-> read # Null,
       valid |-> isValidSession(session),
       refreshable |-> isRefreshable(session),
       needsRefresh |-> sessionNeedsRefresh(read),
       calls |-> Len(refreshed.calls)]

\* the request path on two sessions that differ in their token contents only
CallRefreshDecision ==
  /\ \E d \in ProbeOffsets, c \in TokenContents :
       probe' = [fn |-> "refreshDecision", time |-> now,
                 first |-> Classify(SessionData("at", "it", "rtA", StartTime + d)),
                 second |-> Classify(SessionData(c.accessToken, c.idToken,
                                                 c.refreshToken, StartTime + d))]
  /\ UNCHANGED <<now, advances, env, jar, uuids, resp, loggedOut, flight, authServer>>

\* a call of createAuthorizationRequest with the configuration of the
\* process, followed by verifyState on a callback request that echoes the
\* state of the URL and presents the cookie of the header; "earlier" are the
\* states that calls before this one have made
CallCreateAuthorizationRequest ==
  /\ uuids < MaxStates
  /\ LET config == getAuth0Config(Request(NoParam, NoParam,
                                          [session |-> Absent, state |-> Absent]))
     IN  /\ ~Threw(config)
         /\ LET auth == createAuthorizationRequest(config)
                echo == Request("code-1", auth.url.query.state,
                                [session |-> Absent, state |-> auth.cookieHeader.value])
            IN  probe' = [fn |-> "createAuthorizationRequest", time |-> now,
                          result |-> auth,
                          earlier |-> {Uuid(n) : n \in 1..uuids},
                          verified |-> verifyState(echo, auth.url.query.state)]
  /\ uuids' = uuids + 1
  /\ UNCHANGED <<now, advances, env, jar, resp, loggedOut, flight, authServer>>

NextFn ==
  \/ Advance \/ CallSessionNeedsRefresh \/ CallGetSession \/ CallCreateSessionHeader
  \/ CallParseJwt \/ CallGetUserFromJwt \/ CallCreateAuthorizationRequest
  \/ CallRefreshDecision

SpecFn == Init /\ [][NextFn]_vars

(***************************************************************************)
(* Properties.  The predicates below read the last request and its         *)
(* response; the ones that evaluate a session function on the response     *)
(* do so at the time of the request (resp.time = now).                     *)
(***************************************************************************)
IsCallback == resp.op = "callback"
IsLoader == resp.op = "getAuthLoaderData"

InvalidState == Location("/login", [error |-> "invalid_state"])
CallbackFailed == Location("/login", [error |-> "auth_callback_failed"])
DeleteSessionHeader == [name |-> "__session", value |-> EmptyValue, maxAge |-> 0]

\* the wire value of a cookie holds the string state
CookieHoldsState(wire, state) ==
  wire # Absent /\ wire # EmptyValue /\ wire.body = JStr(state)

HasParams == ~Falsy(resp.request.code) /\ ~Falsy(resp.request.state)

\* the handler called the token endpoint, and the call failed
CallFailed ==
  /\ resp.calls # <<>>
  /\ (resp.answer = NetworkError \/ ~ResponseOk(resp.answer))

\* the handler called the token endpoint, and got a success status with a token body
CallAnswered ==
  /\ resp.calls # <<>>
  /\ resp.answer # NetworkError
  /\ ResponseOk(resp.answer)
  /\ resp.answer.body # GarbageText

\* C1: a callback with code and state whose state cookie is absent or does not
\* hold the state parameter makes no token exchange call and redirects to
\* /login?error=invalid_state; every exchange call follows a verifyState that
\* returned true in the same request
C1_MismatchNeverExchanges ==
  /\ (IsCallback /\ HasParams
        /\ ~CookieHoldsState(resp.request.cookie.state, resp.request.state))
     => (resp.calls = <<>> /\ resp.outcome = "redirect" /\ resp.location = InvalidState
           /\ resp.setCookie = NoHeader)
  /\ (IsCallback /\ resp.calls # <<>>) => resp.verified = <<TRUE>>

C1_Witness ==
  /\ IsCallback /\ HasParams
  /\ resp.request.cookie.state # Absent
  /\ resp.request.cookie.state = BrowserSends(jar.state)
  /\ ~CookieHoldsState(resp.request.cookie.state, resp.request.state)
  /\ resp.location = InvalidState

\* C2: a callback without code or without state (missing or empty) throws at
\* once: no redirect, no verifyState, no token exchange call
C2_ParamsBeforeState ==
  (IsCallback /\ ~HasParams)
  => (resp.outcome = "throw" /\ resp.error = "Invalid callback parameters"
        /\ resp.location = NoLocation /\ resp.setCookie = NoHeader
        /\ resp.verified = <<>> /\ resp.calls = <<>>)

C2_Witness ==
  /\ IsCallback
  /\ Falsy(resp.request.code)
  /\ CookieHoldsState(resp.request.cookie.state, resp.request.state)
  /\ resp.outcome = "throw"

\* C3: a refresh that is due and whose call fails (network error or non-success
\* status) returns session = null with the header that deletes the session
\* cookie, never the session it was given
C3_RefreshFailureClears ==
  (IsLoader /\ CallFailed)
  => (resp.session = Null /\ resp.setCookie = DeleteSessionHeader
        /\ resp.session # resp.input)

C3_Witness ==
  /\ IsLoader /\ CallFailed
  /\ resp.answer # NetworkError
  /\ resp.input # Null
  /\ resp.session = Null
  /\ jar.session = NoCookie

\* C4: a refresh answered with a success status but without access_token,
\* id_token or expires_in returns session = null and the delete-cookie header
C4_IncompleteRefreshClears ==
  (IsLoader /\ CallAnswered
     /\ (\/ resp.answer.body.access_token = Undefined
         \/ resp.answer.body.id_token = Undefined
         \/ resp.answer.body.expires_in = UndefinedNum))
  => (resp.session = Null /\ resp.setCookie = DeleteSessionHeader)

\* C5: after a successful refresh the refreshToken of the new session is the
\* refresh_token of the response when it has a non-empty one, else the
\* refreshToken of the session passed in; without one in the response
\* construction does not fail
C5_RefreshTokenFallback ==
  /\ (IsLoader /\ CallAnswered /\ resp.session # Null)
     => resp.session.refreshToken =
          IF Falsy(resp.answer.body.refresh_token) THEN resp.input.refreshToken
          ELSE resp.answer.body.refresh_token
  /\ (IsLoader /\ CallAnswered /\ Falsy(resp.answer.body.refresh_token))
     => (resp.session # Null /\ resp.session.refreshToken = resp.input.refreshToken
           /\ resp.setCookie = createSessionHeader(resp.session))

C5_Witness ==
  /\ IsLoader /\ CallAnswered
  /\ resp.answer.body.refresh_token = Undefined
  /\ resp.input.refreshToken = "rtB"
  /\ resp.session # Null
  /\ resp.session.refreshToken = "rtB"

\* C6: a code exchange answered with a success status but without
\* refresh_token creates no session, sets no cookie and redirects to
\* /login?error=auth_callback_failed
C6_LoginNeedsRefreshToken ==
  (IsCallback /\ CallAnswered /\ Falsy(resp.answer.body.refresh_token))
  => (resp.session = Null /\ resp.setCookie = NoHeader
        /\ resp.outcome = "redirect" /\ resp.location = CallbackFailed)

C6_Witness ==
  /\ IsCallback /\ CallAnswered
  /\ resp.answer.body.refresh_token = Undefined
  /\ resp.location = CallbackFailed
  /\ jar.session = NoCookie

\* C7: a code exchange that fails after the state was verified creates no
\* session, sets no cookie, is not repeated, and redirects to
\* /login?error=auth_callback_failed
C7_ExchangeFailure ==
  (IsCallback /\ CallFailed)
  => (resp.verified = <<TRUE>> /\ resp.session = Null /\ resp.setCookie = NoHeader
        /\ Len(resp.calls) = 1
        /\ resp.outcome = "redirect" /\ resp.location = CallbackFailed)

C7_Witness ==
  /\ IsCallback /\ CallFailed
  /\ resp.answer # NetworkError
  /\ resp.answer.body = CompleteBody
  /\ resp.location = CallbackFailed

\* C8: refreshSessionIfNeeded given null, or a session for which
\* sessionNeedsRefresh is false, returns that session, no headers, and makes
\* no call
C8_NoRefreshNoOp ==
  (IsLoader /\ resp.time = now /\ resp.input # NotCalled
     /\ (resp.input = Null \/ ~sessionNeedsRefresh(resp.input)))
  => (resp.session = resp.input /\ resp.setCookie = NoHeader /\ resp.calls = <<>>)

C8_Witness ==
  /\ IsLoader /\ resp.time = now
  /\ resp.input # NotCalled /\ resp.input # Null
  /\ ~sessionNeedsRefresh(resp.input)
  /\ resp.session = resp.input

\* a cookie signed with the session secret that holds the four session fields
WellFormedSessionCookie(wire) ==
  /\ wire # Absent /\ wire # EmptyValue
  /\ wire.sig = SESSION_SECRET
  /\ DOMAIN wire.body = {"accessToken", "idToken", "refreshToken", "expiresAt"}
  /\ IsNumber(wire.body.expiresAt)

\* C10: getSession returns the session of a well-formed cookie whose expiresAt
\* is past but less than maxAge ago
C10_ExpiredWithinMaxAgeIsRead ==
  (IsLoader /\ resp.time = now /\ resp.input # NotCalled
     /\ WellFormedSessionCookie(resp.request.cookie.session)
     /\ resp.request.cookie.session.body.expiresAt <= now
     /\ now - SESSION_MAX_AGE < resp.request.cookie.session.body.expiresAt)
  => (resp.input # Null /\ resp.input = resp.request.cookie.session.body)

C10_Witness ==
  /\ IsLoader /\ resp.time = now /\ resp.input # NotCalled
  /\ WellFormedSessionCookie(resp.request.cookie.session)
  /\ resp.request.cookie.session.body.expiresAt + 3600 <= now
  /\ now - SESSION_MAX_AGE < resp.request.cookie.session.body.expiresAt
  /\ resp.input = resp.request.cookie.session.body

\* C11: a request whose session cookie is well formed but holds an expiresAt
\* more than maxAge in the past is handled as one without session: getSession
\* returns null, the loader returns session = null without header and without
\* a refresh call, and the login route starts a new login
C11_DeadIsAbsent ==
  LET cookie == resp.request.cookie.session
      dead == /\ WellFormedSessionCookie(cookie)
              /\ cookie.body.expiresAt < resp.time - SESSION_MAX_AGE
  IN  /\ (IsLoader /\ resp.input # NotCalled /\ dead)
         => (resp.input = Null /\ resp.session = Null
               /\ resp.setCookie = NoHeader /\ resp.calls = <<>>)
      /\ (resp.op = "login" /\ dead) => resp.location # Location("/", NoQuery)

C11_Witness ==
  /\ IsLoader /\ resp.input = Null
  /\ WellFormedSessionCookie(resp.request.cookie.session)
  /\ resp.request.cookie.session.body.expiresAt = resp.time - SESSION_MAX_AGE - 1
  /\ resp.session = Null /\ resp.calls = <<>>

\* the cookie ceiling the README documents (SESSION_MAX_AGE_DAYS, default 7)
SESSION_MAX_AGE_DAYS_DEFAULT == 7 * 24 * 60 * 60

\* C12: with the default configuration the ceiling is 7 days: a well-formed
\* session cookie whose expiresAt is past but less than 7 days ago is read
\* back by getSession and refreshed with one call
C12_SevenDayCeiling ==
  LET cookie == resp.request.cookie.session
  IN  (IsLoader /\ resp.input # NotCalled
         /\ WellFormedSessionCookie(cookie)
         /\ cookie.body.expiresAt <= resp.time
         /\ resp.time - SESSION_MAX_AGE_DAYS_DEFAULT < cookie.body.expiresAt)
      => (resp.input = cookie.body /\ Len(resp.calls) = 1)

\* C13 as stated: every session with the four fields is read back equal to
\* what createSessionHeader wrote, and getSession returns null only for a
\* cookie that is absent, malformed or lacks one of the four fields
C13_RoundTrip ==
  probe.fn = "getSession"
  => /\ probe.written # Null => probe.result = probe.written
     /\ probe.result = Null => ~WellFormedSessionCookie(probe.wire)

\* C13: a session with the four fields and a finite expiresAt later than
\* now - maxAge is read back equal, field for field, to what
\* createSessionHeader wrote; getSession returns null exactly when the cookie
\* is absent, malformed, lacks one of the four fields, or holds an expiresAt
\* at or before now - maxAge
C13_RoundTripWithinCeiling ==
  probe.fn = "getSession"
  => /\ (/\ probe.written # Null
          /\ probe.written.expiresAt # NaN
          /\ probe.written.expiresAt > probe.time - SESSION_MAX_AGE)
        => probe.result = probe.written
     /\ probe.result = Null
        <=> \/ ~WellFormedSessionCookie(probe.wire)
            \/ probe.wire.body.expiresAt <= probe.time - SESSION_MAX_AGE

C13_Witness ==
  /\ probe.fn = "getSession"
  /\ probe.written # Null
  /\ probe.written.expiresAt # NaN
  /\ probe.written.expiresAt < probe.time - 3600
  /\ probe.result = probe.written
  /\ probe.result.refreshToken = "rtA"

\* the four fields of a session are present together
CompleteSession(s) ==
  /\ IsString(s.accessToken)
  /\ IsString(s.idToken)
  /\ ~Falsy(s.refreshToken)
  /\ s.expiresAt \notin {NaN, JNull, UndefinedNum}

\* C14: every session createSessionData produced at a callback or at a
\* refresh has string accessToken and idToken, a non-empty refreshToken and a
\* numeric expiresAt, in the value returned and in the cookie written; a
\* response without refresh token and without a previous one gives no session
C14_SessionInvariant ==
  /\ ((IsCallback \/ IsLoader) /\ resp.calls # <<>> /\ resp.session # Null)
     => /\ CompleteSession(resp.session)
        /\ resp.setCookie = createSessionHeader(resp.session)
        /\ WellFormedSessionCookie(resp.setCookie.value)
  /\ (IsCallback /\ CallAnswered /\ Falsy(resp.answer.body.refresh_token))
     => resp.session = Null

\* C15: a request makes at most one call to the token endpoint: the loader
\* at most one refresh_token call, the callback at most one
\* authorization_code call, the login route none; after a call that failed
\* the response is the failure response, with that one call made
C15_AtMostOneCall ==
  resp.op # "none"
  => /\ Len(resp.calls) <= 1
     /\ \A i \in 1..Len(resp.calls) :
          resp.calls[i].grant_type =
            IF IsLoader THEN "refresh_token" ELSE "authorization_code"
     /\ resp.op = "login" => resp.calls = <<>>
     /\ (IsLoader /\ CallFailed)
        => (Len(resp.calls) = 1 /\ resp.outcome = "data" /\ resp.session = Null)
     /\ (IsCallback /\ CallFailed)
        => (Len(resp.calls) = 1 /\ resp.outcome = "redirect"
              /\ resp.location = CallbackFailed)

C15_Witness ==
  /\ IsLoader /\ CallFailed
  /\ resp.answer = NetworkError
  /\ Len(resp.calls) = 1
  /\ resp.calls[1].refresh_token = resp.input.refreshToken

Valid(s, t) == s.expiresAt > t
Refreshable(s, t) == s.expiresAt <= t /\ t - SESSION_MAX_AGE < s.expiresAt
Dead(s, t) == s.expiresAt <= t - SESSION_MAX_AGE

\* the next request of the user agent to a loader, with the cookies it holds
NextBrowserRequest ==
  Request(NoParam, NoParam,
          [session |-> BrowserSends(jar.session), state |-> BrowserSends(jar.state)])

\* the loader tried to refresh an expired session that is within maxAge, and
\* the authorization server could not be reached
OutageDuringRefresh ==
  /\ IsLoader /\ resp.time = now
  /\ resp.calls # <<>> /\ resp.answer = NetworkError
  /\ Refreshable(resp.input, resp.time)

\* C17 as stated: after a refresh call of an expired session within maxAge
\* failed because the authorization server was unreachable, the next request
\* of the user agent still reads that session and refreshes it
C17_SurvivesOutage ==
  OutageDuringRefresh
  => /\ getSession(NextBrowserRequest) = resp.input
     /\ getAuthLoaderData(NextBrowserRequest, NetworkError).calls # <<>>

\* C17: an expired session within maxAge does not survive a refresh call that
\* failed because the authorization server was unreachable: the response
\* deletes the session cookie, and the next request of the user agent reads
\* no session and makes no refresh call
C17_OutageEndsSession ==
  OutageDuringRefresh
  => /\ resp.session = Null
     /\ jar.session = NoCookie
     /\ getSession(NextBrowserRequest) = Null
     /\ getAuthLoaderData(NextBrowserRequest, NetworkError).calls = <<>>

C17_Witness ==
  /\ OutageDuringRefresh
  /\ resp.request.cookie.session # BrowserSends(jar.session)
  /\ resp.input.expiresAt + REFRESH_WINDOW <= now
  /\ getSession(NextBrowserRequest) = Null

\* request i was handled; its response was applied by the user agent
Handled(i) == flight[i].phase \in {"handled", "delivered"}
Delivered(i) == flight[i].phase = "delivered"

\* the handler of request i read a session that was inside the refresh
\* window, or expired, at that time
DueAt(i) ==
  LET r == flight[i].response
  IN  /\ Handled(i)
      /\ r.input # NotCalled /\ r.input # Null
      /\ r.input.expiresAt - r.time <= REFRESH_WINDOW

\* two requests sent with the same cookies, both handled with a refresh due
ConcurrentPairs ==
  {p \in (1..Len(flight)) \X (1..Len(flight)) :
     /\ p[1] # p[2]
     /\ flight[p[1]].request = flight[p[2]].request
     /\ DueAt(p[1]) /\ DueAt(p[2])}

\* C18: with reusable refresh tokens, two requests sent with the same session
\* cookie and a refresh due each make their own refresh call; when both calls
\* reach the server both succeed, each response carries a complete, unexpired
\* session and the cookie written from it, and once both are applied the
\* user agent holds exactly the cookie of the response applied last
C18_ConcurrentRefreshBenign ==
  authServer.policy = "reusable"
  => \A p \in ConcurrentPairs :
       LET ri == flight[p[1]].response
           rj == flight[p[2]].response
       IN  /\ Len(ri.calls) = 1 /\ Len(rj.calls) = 1
           /\ (ri.answer # NetworkError /\ rj.answer # NetworkError)
              => /\ ri.session # Null /\ rj.session # Null
                 /\ CompleteSession(ri.session)
                 /\ Valid(ri.session, ri.time)
                 /\ ri.setCookie = createSessionHeader(ri.session)
                 /\ WellFormedSessionCookie(ri.setCookie.value)
                 /\ (Delivered(p[1]) /\ Delivered(p[2]) /\ resp = ri)
                    => /\ jar.session # NoCookie
                       /\ jar.session.wire = ri.setCookie.value
                       /\ jar.session.wire.body = ri.session

C18_Witness ==
  /\ authServer.policy = "reusable"
  /\ <<1, 2>> \in ConcurrentPairs
  /\ Delivered(1) /\ Delivered(2)
  /\ flight[1].response.session # Null
  /\ flight[2].response.session # Null
  /\ flight[1].response.session # flight[2].response.session
  /\ resp = flight[1].response
  /\ jar.session # NoCookie
  /\ jar.session.wire.body = flight[1].response.session

\* C19: with rotating refresh tokens, two requests sent with the same session
\* cookie and a refresh due call the endpoint with the same refresh token;
\* when both calls reach the server at most one succeeds, the other response
\* is session = null with the delete-cookie header, and when that response
\* is applied last the user agent holds no session cookie
C19_RotationSpuriousLogout ==
  authServer.policy = "rotating"
  => \A p \in ConcurrentPairs :
       LET ri == flight[p[1]].response
           rj == flight[p[2]].response
       IN  /\ Len(ri.calls) = 1 /\ Len(rj.calls) = 1
           /\ ri.calls[1].refresh_token = rj.calls[1].refresh_token
           /\ (ri.answer # NetworkError /\ rj.answer # NetworkError)
              => /\ ri.session = Null \/ rj.session = Null
                 /\ ri.session = Null
                    => /\ EndpointFailed(ri.answer)
                       /\ ri.setCookie = DeleteSessionHeader
                       /\ (Delivered(p[1]) /\ resp = ri) => jar.session = NoCookie

C19_Witness ==
  /\ authServer.policy = "rotating"
  /\ <<1, 2>> \in ConcurrentPairs
  /\ Delivered(1) /\ Delivered(2)
  /\ flight[1].response.session # Null
  /\ flight[2].response.session = Null
  /\ flight[2].response.answer # NetworkError
  /\ resp = flight[2].response
  /\ jar.session = NoCookie

\* C20: after a callback of the user agent ended in failure (invalid_state or
\* auth_callback_failed), a further callback with the state of the failed
\* attempt, made before any new login, does not pass the state verification
C20_NoStateAcrossFailure ==
  [][(/\ IsCallback
      /\ resp.outcome = "redirect"
      /\ resp.location \in {InvalidState, CallbackFailed}
      /\ resp.request.cookie.state = BrowserSends(jar.state)
      /\ IsCallback' /\ resp' # resp
      /\ resp'.request.state = resp.request.state
      /\ resp'.request.cookie.state = BrowserSends(jar.state))
     => resp'.verified # <<TRUE>>]_vars

\* C21: a callback that follows a callback which passed the state
\* verification, and carries the same state cookie, the same state and the
\* same code, passes the verification again and, with a complete
\* configuration, makes a token exchange call of its own
C21_StateNotConsumed ==
  [][(/\ IsCallback /\ resp.verified = <<TRUE>>
      /\ IsCallback'
      /\ resp'.request.state = resp.request.state
      /\ resp'.request.code = resp.request.code
      /\ resp'.request.cookie.state = resp.request.cookie.state)
     => /\ resp'.verified = <<TRUE>>
        /\ \/ Threw(getAuth0Config(resp.request))
           \/ /\ Len(resp'.calls) = 1
              /\ resp'.calls[1].code = resp.request.code]_vars

\* the second callback of a login: the server has exchanged the code before
C21_Witness ==
  /\ IsCallback /\ resp.verified = <<TRUE>>
  /\ authServer.exchanges = uuids
  /\ Len(resp.calls) = 1
  /\ resp.answer = HttpAnswer(403, ErrorBody)
  /\ resp.request.cookie.state = BrowserSends(jar.state)

\* the states createAuthorizationRequest has issued so far
IssuedStates == {Uuid(n) : n \in 1..uuids}

\* C22: a callback with code and state whose state cookie was not written by
\* createAuthorizationRequest, though it holds the state parameter, is
\* rejected with invalid_state and makes no token exchange call
C22_ForgedStateRejected ==
  (/\ IsCallback /\ HasParams
   /\ CookieHoldsState(resp.request.cookie.state, resp.request.state)
   /\ resp.request.state \notin IssuedStates)
  => (resp.verified = <<FALSE>> /\ resp.location = InvalidState /\ resp.calls = <<>>)

IsLogout == resp.op = "logout"

IsLogin == resp.op = "login"

\* C24: the login loader redirects to "/" without a state cookie when
\* getSession returns a session for the request; otherwise (the configuration
\* being complete) it redirects to the /authorize URL of the authorization
\* server and sets the state cookie holding the state embedded in that URL
C24_LoginLoader ==
  (IsLogin /\ resp.time = now)
  => IF getSession(resp.request) # Null
     THEN /\ resp.outcome = "redirect"
          /\ resp.location = Location("/", NoQuery)
          /\ resp.setCookie = NoHeader
     ELSE IF Threw(getAuth0Config(resp.request))
     THEN resp.outcome = "throw" /\ resp.setCookie = NoHeader
     ELSE /\ resp.outcome = "redirect"
          /\ resp.location.url = "https://" \o env.AUTH0_DOMAIN \o "/authorize"
          /\ resp.location.query.state = Uuid(uuids)
          /\ resp.setCookie.name = "__auth_state"
          /\ parseCookie(Unsigned, resp.setCookie.value)
               = JStr(resp.location.query.state)
          /\ jar.state.wire = resp.setCookie.value

C24_Witness ==
  /\ IsLogin /\ resp.time = now
  /\ getSession(resp.request) = Null
  /\ WellFormedSessionCookie(resp.request.cookie.session)
  /\ resp.outcome = "redirect"
  /\ resp.location.query.state = Uuid(uuids)
  /\ CookieHoldsState(BrowserSends(jar.state), resp.location.query.state)

\* C25: whenever shouldSkipAuth() is true, getAuthLoaderData makes no call to
\* the authorization server, does not read the request's cookie, and returns
\* a non-null session whose idToken decodes to claims with sub "dev|123456789"
C25_DevModeBypass ==
  (IsLoader /\ shouldSkipAuth)
  => /\ resp.calls = <<>> /\ resp.answer = NoAnswer
     /\ resp.input = NotCalled
     /\ resp.session # Null
     /\ parseJwt(resp.session.idToken) # Null
     /\ parseJwt(resp.session.idToken).sub = "dev|123456789"

C25_Witness ==
  /\ IsLoader /\ shouldSkipAuth
  /\ env.MODE = "production"
  /\ WellFormedSessionCookie(resp.request.cookie.session)
  /\ resp.time = now
  /\ getSession(resp.request) # Null
  /\ resp.session # getSession(resp.request)
  /\ parseJwt(resp.session.idToken).sub = "dev|123456789"

\* C26: when the dev-mode provider is active, getAuthLoaderData returns the
\* mock session together with the Set-Cookie header createSessionHeader
\* writes for it
C26_DevModeWritesCookie ==
  (IsLoader /\ shouldSkipAuth /\ resp.time = now)
  => /\ resp.session = createDevSession
     /\ resp.setCookie = createSessionHeader(resp.session)

\* C27: shouldSkipAuth() is true if and only if the mode is "development" and
\* SKIP_AUTH is not "false", or SKIP_AUTH is "true"; a mode that the
\* environment does not give counts as "development"; the loader bypasses
\* authentication exactly when the gate is true
C27_DevModeGate ==
  LET mode == IF env.MODE \in {Undefined, ""} THEN "development" ELSE env.MODE
      gate == \/ mode = "development" /\ env.SKIP_AUTH # "false"
              \/ env.SKIP_AUTH = "true"
  IN  /\ probe.fn = "shouldSkipAuth" => probe.result = gate
      /\ IsLoader => ((resp.input = NotCalled) <=> gate)
      /\ (IsLoader /\ gate) => resp.session.accessToken = "dev-access-token"

C27_Witness ==
  /\ probe.fn = "shouldSkipAuth" /\ probe.result = TRUE
  /\ env.MODE = Undefined /\ env.SKIP_AUTH = Undefined
  /\ IsLoader
  /\ resp.session.accessToken = "dev-access-token"

\* C28 as stated: the session createDevSession returns expires at most a few
\* hours (here: twelve) after the time of its creation
C28_DevSessionShortLived ==
  (IsLoader /\ shouldSkipAuth)
  => resp.session.expiresAt - resp.time <= 12 * 60 * 60

\* C28: the session createDevSession returns expires 365 days after the time
\* of its creation; it is Valid and outside the refresh window then and
\* stays so while the clock advances by a day and more
C28_DevSessionLastsAYear ==
  (IsLoader /\ shouldSkipAuth)
  => /\ resp.session.expiresAt = resp.time + 365 * 24 * 60 * 60
     /\ isValidSession(resp.session)
     /\ ~sessionNeedsRefresh(resp.session)

C28_Witness ==
  /\ IsLoader /\ shouldSkipAuth
  /\ now >= resp.time + SESSION_MAX_AGE + REFRESH_WINDOW
  /\ resp.session.expiresAt = resp.time + 365 * 24 * 60 * 60
  /\ ~sessionNeedsRefresh(resp.session)

\* C29: for every session written with createSessionHeader, the Max-Age of the
\* cookie is at least expiresAt - now at the time of writing
C29_CookieOutlivesSession ==
  (probe.fn = "createSessionHeader" /\ probe.session # Null)
  => probe.result.maxAge >= probe.session.expiresAt - probe.time

\* C30: an operation that needs a required configuration value that is
\* missing fails with the error naming that value: a login that starts an
\* authorization request, a callback whose state verified, a logout with
\* authentication enabled; and no session cookie is ever signed while the
\* session-signing secret is missing
C30_ConfigFailFast ==
  LET config == getAuth0Config(resp.request)
      needsConfig == \/ IsLogin /\ resp.time = now /\ getSession(resp.request) = Null
                     \/ IsCallback /\ resp.verified = <<TRUE>>
                     \/ IsLogout /\ ~shouldSkipAuth
  IN  /\ (needsConfig /\ Threw(config))
         => (resp.outcome = "throw" /\ resp.error = config.threw)
      /\ (resp.op # "none" /\ resp.setCookie # NoHeader
          /\ resp.setCookie.name = "__session")
         => ~Falsy(env.SESSION_SECRET)

\* C31 as stated: a request with a bad or missing session cookie or with bad
\* callback parameters never makes the operation throw
C31_MalformedNeverThrows ==
  /\ (IsLoader /\ ~WellFormedSessionCookie(resp.request.cookie.session))
     => (resp.outcome = "data" /\ resp.session = Null)
  /\ (IsCallback /\ ~HasParams) => resp.outcome # "throw"

\* C31: a session cookie that is absent, empty, signed with another key or
\* lacking a valid field reads as no session: the loader returns session null
\* without calls or headers and the login loader starts an authorization
\* request; a callback whose state cookie is absent or does not decode
\* redirects with invalid_state; a callback without code or state throws
\* "Invalid callback parameters"
C31_MalformedRecovered ==
  /\ (IsLoader /\ ~shouldSkipAuth
      /\ ~WellFormedSessionCookie(resp.request.cookie.session))
     => /\ resp.outcome = "data" /\ resp.input = Null /\ resp.session = Null
        /\ resp.calls = <<>> /\ resp.setCookie = NoHeader
  /\ (IsLogin /\ ~WellFormedSessionCookie(resp.request.cookie.session))
     => resp.location # Location("/", NoQuery)
  /\ (IsCallback /\ HasParams
      /\ resp.request.cookie.state \in {Absent, [sig |-> Unsigned, body |-> GarbageText]})
     => (resp.outcome = "redirect" /\ resp.location = InvalidState)
  /\ (IsCallback /\ ~HasParams)
     => /\ resp.outcome = "throw" /\ resp.error = "Invalid callback parameters"
        /\ resp.verified = <<>> /\ resp.calls = <<>>

C31_Witness ==
  /\ IsLoader /\ ~shouldSkipAuth
  /\ resp.request.cookie.session \notin {Absent, EmptyValue}
  /\ resp.request.cookie.session.sig = SESSION_SECRET
  /\ ~WellFormedSessionCookie(resp.request.cookie.session)
  /\ resp.session = Null /\ resp.outcome = "data"

\* C32: no entry that a token function writes to the console holds the token
\* it was given
C32_TokensNeverLogged ==
  probe.fn \in {"parseJwt", "getUserFromJwt"}
  => \A i \in 1..Len(probe.log) :
       \A k \in 1..Len(probe.log[i].values) : probe.log[i].values[k] # probe.token

\* C33: parseJwt returns null for the empty string, for a text without dots,
\* for a token without a payload segment, for a header or a payload that is
\* not base64 of JSON and for a header with the enc marker; it returns the
\* claim set of the payload otherwise
C33_ParseJwt ==
  LET h == btoa(JsonText(IdTokenHeader))
      p == btoa(JsonText(IdTokenPayload))
      e == btoa(JsonText(EncryptedHeader))
      undecodable ==
        {"", "not-a-jwt", h, h \o ".", h \o ".!!!.sig",
         h \o "." \o btoa("not json") \o ".sig",
         "!!!." \o p \o ".sig",
         btoaUrl(JsonText(IdTokenHeader)) \o "." \o p \o ".sig",
         e \o "." \o p \o ".sig", e \o ".key.iv.ciphertext.tag"}
      ofUser ==
        {h \o "." \o p, h \o "." \o p \o ".sig",
         h \o "." \o btoaUrl(JsonText(IdTokenPayload)) \o ".sig"}
      expired == {h \o "." \o btoa(JsonText(ExpiredPayload)) \o ".sig"}
  IN  probe.fn = "parseJwt"
      => /\ probe.token \in undecodable => probe.result = Null
         /\ probe.token \in ofUser => probe.result = IdTokenPayload
         /\ probe.token \in expired => probe.result = ExpiredPayload
         /\ probe.token \notin (undecodable \cup ofUser \cup expired)
            => /\ \E t \in TimesAfter(MaxAdvances) :
                    /\ probe.token = btoa(JsonText(MockJwtHeader)) \o "."
                                       \o btoa(JsonText(MockJwtPayload(t)))
                                       \o ".mock-signature"
                    /\ probe.result = MockJwtPayload(t)
               /\ probe.result.sub = "dev|123456789"

C33_Witness ==
  /\ probe.fn = "parseJwt"
  /\ probe.token = btoa(JsonText(EncryptedHeader)) \o "."
                     \o btoa(JsonText(IdTokenPayload)) \o ".sig"
  /\ probe.result = Null

\* C34: getUserFromJwt(token) is what parseJwt(token) is, for every token
C34_SameDecode ==
  probe.fn = "getUserFromJwt" => probe.result = parseJwt(probe.token)

\* the token endpoint answered with a success status and a body that holds
\* access_token, id_token, refresh_token and expires_in
CompleteAnswer(answer) ==
  /\ answer \notin {NoAnswer, NetworkError}
  /\ ResponseOk(answer)
  /\ answer.body # GarbageText
  /\ ~Falsy(answer.body.access_token) /\ ~Falsy(answer.body.id_token)
  /\ ~Falsy(answer.body.refresh_token) /\ IsNumber(answer.body.expires_in)

\* C35: a callback with code and state whose state verifies and whose
\* exchange response holds the four fields redirects to "/" with a
\* Set-Cookie of the session cookie holding a session made of exactly the
\* tokens of the response, with expiresAt = time of the request + expires_in
C35_SuccessfulHandshake ==
  (IsCallback /\ HasParams /\ resp.verified = <<TRUE>> /\ CompleteAnswer(resp.answer))
  => /\ resp.outcome = "redirect"
     /\ resp.location = Location("/", NoQuery)
     /\ resp.setCookie # NoHeader
     /\ resp.setCookie.name = "__session"
     /\ resp.setCookie.maxAge = SESSION_MAX_AGE
     /\ parseCookie(SESSION_SECRET, resp.setCookie.value)
          = SessionData(resp.answer.body.access_token, resp.answer.body.id_token,
                        resp.answer.body.refresh_token,
                        resp.time + resp.answer.body.expires_in)
     /\ resp.session = parseCookie(SESSION_SECRET, resp.setCookie.value)

C35_Witness ==
  /\ IsCallback /\ HasParams /\ resp.verified = <<TRUE>>
  /\ resp.request.state \in IssuedStates
  /\ CompleteAnswer(resp.answer)
  /\ resp.answer.body.expires_in = 300
  /\ resp.session.expiresAt = resp.time + 300
  /\ jar.session # NoCookie
  /\ jar.session.wire = resp.setCookie.value

\* C36: each call of createAuthorizationRequest makes a state that no call
\* before it made; the state parameter of the /authorize URL it returns is
\* the value serialized into the state cookie header it returns; the scope
\* asks for offline_access; a callback that echoes the state of the URL with
\* that cookie passes verifyState
C36_OneFreshState ==
  probe.fn = "createAuthorizationRequest"
  => LET state == probe.result.url.query.state
         header == probe.result.cookieHeader
     IN  /\ state \notin probe.earlier
         /\ probe.result.url.url = "https://" \o env.AUTH0_DOMAIN \o "/authorize"
         /\ probe.result.url.query.scope = "openid profile email offline_access"
         /\ header.name = "__auth_state"
         /\ parseCookie(Unsigned, header.value) = JStr(state)
         /\ probe.verified

C36_Witness ==
  /\ probe.fn = "createAuthorizationRequest"
  /\ probe.earlier # {}
  /\ probe.result.url.query.state \notin probe.earlier
  /\ parseCookie(Unsigned, probe.result.cookieHeader.value)
       = JStr(probe.result.url.query.state)
  /\ probe.verified

\* C37: with authentication enabled, getAuthLoaderData makes no call to the
\* refresh endpoint for a request whose session cookie is absent, malformed,
\* lacking a valid session field, or holding a session with
\* expiresAt <= now - maxAge: getSession yields null and the result is
\* session null without headers
C37_NoRefreshWithoutSession ==
  LET cookie == resp.request.cookie.session
      unusable == \/ ~WellFormedSessionCookie(cookie)
                  \/ cookie.body.expiresAt <= resp.time - SESSION_MAX_AGE
  IN  (IsLoader /\ ~shouldSkipAuth /\ unusable)
      => /\ resp.input = Null
         /\ resp.calls = <<>> /\ resp.answer = NoAnswer
         /\ resp.outcome = "data" /\ resp.session = Null
         /\ resp.setCookie = NoHeader

C37_Witness ==
  /\ IsLoader /\ ~shouldSkipAuth
  /\ WellFormedSessionCookie(resp.request.cookie.session)
  /\ resp.request.cookie.session.body.expiresAt = resp.time - SESSION_MAX_AGE
  /\ resp.input = Null /\ resp.calls = <<>> /\ resp.setCookie = NoHeader

\* C38: with authentication enabled, a non-null session that
\* getAuthLoaderData returns without a Set-Cookie header is the session of
\* the cookie and had more than the refresh window left at the time of the
\* request; a session of the cookie that is expired or inside the window is
\* either replaced by a session built from the response of one refresh call
\* and written to the cookie, or replaced by null with the header that
\* deletes the cookie
C38_NoStaleSession ==
  LET stale == /\ resp.input # Null
               /\ resp.input.expiresAt - resp.time <= REFRESH_WINDOW
      replaced == /\ resp.session # Null
                  /\ Len(resp.calls) = 1
                  /\ resp.session.accessToken = resp.answer.body.access_token
                  /\ resp.session.idToken = resp.answer.body.id_token
                  /\ resp.setCookie # NoHeader
                  /\ resp.setCookie.name = "__session"
                  /\ resp.setCookie.maxAge = SESSION_MAX_AGE
                  /\ resp.setCookie.value.body = JsonStringify(resp.session)
      cleared == resp.session = Null /\ resp.setCookie = DeleteSessionHeader
  IN  (IsLoader /\ ~shouldSkipAuth)
      => /\ (resp.session # Null /\ resp.setCookie = NoHeader)
            => /\ resp.session = resp.input
               /\ resp.session.expiresAt - resp.time > REFRESH_WINDOW
               /\ resp.calls = <<>>
         /\ stale => (replaced \/ cleared)

C38_Witness ==
  /\ IsLoader /\ ~shouldSkipAuth
  /\ resp.input # Null
  /\ resp.input.expiresAt - resp.time = REFRESH_WINDOW
  /\ Len(resp.calls) = 1
  /\ resp.session # Null /\ resp.session # resp.input
  /\ resp.setCookie # NoHeader /\ resp.setCookie.maxAge = SESSION_MAX_AGE

\* C39: after a refresh that succeeded, a loader request that presents the
\* session cookie that refresh set makes, when the response of the refresh
\* had expires_in > 300 and the request comes at the same time, no refresh
\* call and returns no Set-Cookie header; when it had expires_in <= 300, it
\* makes a refresh call again, at that time and at every later time at
\* which the session is within maxAge of its expiry
C39_NoRefreshStorm ==
  [][(/\ IsLoader /\ ~shouldSkipAuth
      /\ Len(resp.calls) = 1 /\ resp.session # Null
      /\ IsNumber(resp.answer.body.expires_in)
      /\ IsLoader' /\ resp' # resp
      /\ resp'.request.cookie.session = resp.setCookie.value)
     => IF resp.answer.body.expires_in > REFRESH_WINDOW
        THEN resp'.time = resp.time
             => (resp'.calls = <<>> /\ resp'.setCookie = NoHeader)
        ELSE resp'.time - SESSION_MAX_AGE < resp.session.expiresAt
             => /\ Len(resp'.calls) = 1
                /\ resp'.calls[1].grant_type = "refresh_token"
                /\ resp'.calls[1].refresh_token = resp.session.refreshToken]_vars

C39_Witness ==
  /\ IsLoader /\ ~shouldSkipAuth
  /\ resp.input # Null
  /\ resp.input.expiresAt = resp.time + REFRESH_WINDOW
  /\ resp.input.refreshToken = "rtB"
  /\ Len(resp.calls) = 1
  /\ resp.answer = HttpAnswer(200, TokenBody("at", "it", "rtB", 300))
  /\ resp.session # Null
  /\ resp.session = resp.input

\* C40: two sessions that differ only in their token contents get the same
\* classification from getSession, isValidSession, isRefreshable and
\* sessionNeedsRefresh and the same refresh decision from
\* refreshSessionIfNeeded, whatever the exp claims of their tokens; the
\* decision is the one expiresAt and the time give
C40_DecisionByExpiresAtOnly ==
  probe.fn = "refreshDecision"
  => LET a == probe.first
         b == probe.second
         left == a.session.expiresAt - probe.time
     IN  /\ a.session.expiresAt = b.session.expiresAt
         /\ a.read = b.read /\ a.valid = b.valid /\ a.refreshable = b.refreshable
         /\ a.needsRefresh = b.needsRefresh
         /\ a.calls = b.calls
         /\ b.read = (left > 0 - SESSION_MAX_AGE)
         /\ b.needsRefresh = (b.read /\ left <= REFRESH_WINDOW)

C40_Witness ==
  /\ probe.fn = "refreshDecision"
  /\ parseJwt(probe.second.session.idToken) # Null
  /\ parseJwt(probe.second.session.idToken).exp < probe.time
  /\ probe.second.session.expiresAt - probe.time > REFRESH_WINDOW
  /\ probe.second.read /\ ~probe.second.needsRefresh /\ probe.second.calls = 0
  /\ probe.first.read /\ ~probe.first.needsRefresh /\ probe.first.calls = 0

\* C9: sessionNeedsRefresh is true exactly for a Valid session with at most
\* 5 minutes left and for a Refreshable session; false for null, for a Valid
\* session with more than 5 minutes left and for a Dead session
C9_NeedsRefreshIffDue ==
  probe.fn = "sessionNeedsRefresh"
  => (probe.result <=>
        /\ probe.session # Null
        /\ \/ Valid(probe.session, probe.time)
                /\ probe.session.expiresAt - probe.time <= REFRESH_WINDOW
           \/ Refreshable(probe.session, probe.time))

====
